---- MODULE Spec2Model ----
(***************************************************************************)
(* A model of the Soroban contract execution host (soroban-env-host,       *)
(* src/host.rs): the object registry and its map / vector / bytes host     *)
(* functions, the value comparison obj_cmp, and the cross-contract call    *)
(* path (call, try_call, fail_with_error) over the frame stack.            *)
(*                                                                         *)
(* The specifications share the variables:                                 *)
(*   Spec      the object registry driven by the collection host functions *)
(*   SpecMap   the map host functions alone, over larger registries        *)
(*   SpecVec   the vector host functions alone, over larger registries     *)
(*   SpecCmp   obj_cmp applied to pairs of Vals over bounded registries    *)
(*   SpecCall  the frame stack driven by invoke / call / try_call          *)
(*   SpecStore the storage, event and linear-memory host functions under a *)
(*             budget that can run out at any charge                       *)
(*   SpecMem   the linear-memory host functions                            *)
(*   SpecFinish  events, update_current_contract_wasm and try_finish       *)
(*   SpecVecIndex  the vector functions that take a position or a range    *)
(*   SpecToken, SpecTokenInit  the built-in token contract                 *)
(*   SpecBorrow  the checked borrows of the fields of HostImpl             *)
(*   SpecHook  testutils::call_with_suppressed_panic_hook on two threads   *)
(***************************************************************************)
EXTENDS Integers, Sequences, FiniteSets

VARIABLES
    objects,    \* HostImpl.objects: the append-only registry of host objects
    context,    \* HostImpl.context: the frame stack, bottom first
    pend,       \* the error the running (top) frame is unwinding with, or NoError
    ledger,     \* HostImpl.ledger: TRUE when ledger info is set (Some), FALSE when None
    hres,       \* the last host-function call: its name, inputs and result
    storage,    \* HostImpl.storage: the ledger entries the host can access
    instance,   \* the running contract's instance storage (a HostMap)
    events,     \* HostImpl.events: the buffer of recorded events
    budget,     \* HostImpl.budget: the cpu and memory counters and their limits
    diagnostic_level,   \* HostImpl.diagnostic_level: "None" or "Debug"
    refs,       \* the strong count of the Rc<HostImpl>: the live Hosts, 0 when finished
    memory,     \* the guest's linear memory: its byte slices and its Val words
    authorization_manager,  \* HostImpl.authorization_manager: its mode and entries
    borrows,    \* the borrow flags of the RefCells of HostImpl and the borrows held
    testutils   \* the panic hook, WRAP_PANIC_HOOK and each thread's call count

vars == <<objects, context, pend, ledger, hres, storage, instance, events, budget,
          diagnostic_level, refs, memory, authorization_manager, borrows, testutils>>

\* the part of the host the call path and the collection functions leave alone
env == <<storage, instance, events, budget, diagnostic_level, refs, memory,
         authorization_manager, borrows, testutils>>

(***************************************************************************)
(* Bounds of the model.                                                    *)
(***************************************************************************)
\* number of deployed contracts a frame can be pushed for
NumContracts == 3

\* size of the registries obj_cmp is applied over
MaxCmpObjects == 2

\* size of the registries the map, vector and bytes functions build together
MaxObjects == 2

\* size of the registries the map functions build
MaxMapObjects == 3

\* size of the registries the vector functions build
MaxVecObjects == 3

\* size of the registries the linear-memory functions build
MaxMemObjects == 2

\* number of events recorded before the buffer is looked at
MaxEvents == 1

\* the cpu and memory limits of the budget: the number of charges a host
\* affords
MaxBudget == 6

\* the events a contract records before the embedder ends the host
MaxContractEvents == 2

\* the references to one host state the embedder holds at a time
MaxRefs == 2

\* the depth to which one thread nests call_with_suppressed_panic_hook
MaxCallDepth == 2

\* the borrows of host fields outstanding at a time, and the require_auth
\* calls a recording manager records
MaxBorrows == 2

(***************************************************************************)
(* Errors: (type, code) pairs, as in Error::from_type_and_code.            *)
(***************************************************************************)
ScErrorType ==
    [Contract |-> 0, WasmVm |-> 1, Context |-> 2, Storage |-> 3, Object |-> 4,
     Crypto |-> 5, Events |-> 6, Budget |-> 7, Value |-> 8, Auth |-> 9]

ScErrorCode ==
    [ArithDomain |-> 0, IndexBounds |-> 1, InvalidInput |-> 2, MissingValue |-> 3,
     ExistingValue |-> 4, ExceededLimit |-> 5, InvalidAction |-> 6,
     InternalError |-> 7, UnexpectedType |-> 8, UnexpectedSize |-> 9]

Error(t, c) ==
    [type |-> t, code |-> c]

\* the absence of an error (Ok); its type is no ScErrorType
NoError ==
    [type |-> -1, code |-> 0]

is_type(e, t) ==
    e.type = t

(***************************************************************************)
(* Vals: a tag and a body. The body is a sequence of naturals: the payload *)
(* of an immediate, or the registry index of an object handle.             *)
(***************************************************************************)
Val(tag, body) ==
    [tag |-> tag, body |-> body]

VOID ==
    Val("Void", <<>>)

U32Val(n) ==
    Val("U32Val", <<n>>)

\* Error::to_val: the error as an immediate Val carrying its type and code
to_val(e) ==
    Val("Error", <<e.type, e.code>>)

ObjectTags ==
    {"U64Object", "SymbolObject", "BytesObject", "VecObject", "MapObject", "AddressObject"}

IsObject(v) ==
    v.tag \in ObjectTags

Handle(tag, i) ==
    Val(tag, <<i>>)

(***************************************************************************)
(* Results of host functions: Ok(val) or Err(error).                       *)
(***************************************************************************)
Ok(v) ==
    [ok |-> TRUE, val |-> v, err |-> NoError]

Err(e) ==
    [ok |-> FALSE, val |-> VOID, err |-> e]

(***************************************************************************)
(* Host objects and the registry.                                          *)
(***************************************************************************)
HostObject(type, val) ==
    [type |-> type, val |-> val]

\* ScAddress::Contract(id) and ScAddress::Account(id): <<kind, id>>
AddressContract(id) ==
    HostObject("AddressObject", <<1, id>>)

AddressAccount(id) ==
    HostObject("AddressObject", <<0, id>>)

\* the registry index an object handle carries
Index(v) ==
    v.body[1]

\* an object handle must reference an entry in range and of its own type
check_val_integrity(objs, v) ==
    IsObject(v) => (Index(v) \in 1..Len(objs) /\ objs[Index(v)].type = v.tag)

\* visit_obj: the error it fails with, NoError when the handle resolves
visit_obj(objs, h) ==
    IF ~(Index(h) \in 1..Len(objs))
    THEN Error(ScErrorType.Value, ScErrorCode.InvalidInput)
    ELSE IF objs[Index(h)].type # h.tag
    THEN Error(ScErrorType.Object, ScErrorCode.UnexpectedType)
    ELSE NoError

\* what a host function leaves: its Result and the registry after it
Out(res, objs) ==
    [res |-> res, objects |-> objs]

\* a host function failing with e on registry objs
Fail(objs, e) ==
    Out(Err(e), objs)

\* add_host_object: append, the handle is (type tag, index of the new entry)
add_host_object(objs, ho) ==
    Out(Ok(Handle(ho.type, Len(objs) + 1)), Append(objs, ho))

(***************************************************************************)
(* The call path: frames, call_n_internal, call, try_call, fail_with_error *)
(***************************************************************************)
\* contract ids with an executable in storage; id 0 is a contract that was
\* never deployed
Deployed ==
    1..NumContracts

Frame(id, via) ==
    [id |-> id, via |-> via]

OnStack(ctx, id) ==
    \E i \in 1..Len(ctx) : ctx[i].id = id

\* HostError::is_recoverable: budget errors and internal errors are not
is_recoverable(e) ==
    /\ ~is_type(e, ScErrorType.Budget)
    /\ ~(~is_type(e, ScErrorType.Contract) /\ e.code = ScErrorCode.InternalError)

\* call_args_from_obj: the args handle must resolve to a vector
call_args_from_obj(objs, args) ==
    visit_obj(objs, args)

\* contract_id_from_address: the handle must resolve to a contract address
contract_id_from_address(objs, a) ==
    IF visit_obj(objs, a) # NoError
    THEN [err |-> visit_obj(objs, a), id |-> 0]
    ELSE IF objs[Index(a)].val[1] # 1
    THEN [err |-> Error(ScErrorType.Object, ScErrorCode.InvalidInput), id |-> 0]
    ELSE [err |-> NoError, id |-> objs[Index(a)].val[2]]

\* call_n_internal up to the dispatch: resolve the executable, check reentry;
\* err = NoError means a frame is pushed for id
call_n_internal(ctx, id, reentry_mode) ==
    IF id \notin Deployed
    THEN Error(ScErrorType.Storage, ScErrorCode.MissingValue)
    ELSE IF reentry_mode = "Prohibited" /\ OnStack(ctx, id)
    THEN Error(ScErrorType.Context, ScErrorCode.InvalidAction)
    ELSE NoError

\* a decision of call / try_call before the callee runs: early = the host
\* function returned before call_n_internal; otherwise err is what
\* call_n_internal failed with before pushing a frame (NoError: frame pushed)
Dispatch(early, err, id) ==
    [early |-> early, err |-> err, id |-> id]

\* call with the reentry check switched off (ContractReentryMode::Allowed)
call_reentry_allowed(objs, ctx, contract_address, args) ==
    IF call_args_from_obj(objs, args) # NoError
    THEN Dispatch(TRUE, call_args_from_obj(objs, args), 0)
    ELSE IF contract_id_from_address(objs, contract_address).err # NoError
    THEN Dispatch(TRUE, contract_id_from_address(objs, contract_address).err, 0)
    ELSE Dispatch(FALSE,
                  call_n_internal(ctx, contract_id_from_address(objs, contract_address).id,
                                  "Allowed"),
                  contract_id_from_address(objs, contract_address).id)

\* call, up to the dispatch: decode args, resolve the address, then
\* call_n_internal with ContractReentryMode::Prohibited
call(objs, ctx, contract_address, args) ==
    IF call_args_from_obj(objs, args) # NoError
    THEN Dispatch(TRUE, call_args_from_obj(objs, args), 0)
    ELSE IF contract_id_from_address(objs, contract_address).err # NoError
    THEN Dispatch(TRUE, contract_id_from_address(objs, contract_address).err, 0)
    ELSE Dispatch(FALSE,
                  call_n_internal(ctx, contract_id_from_address(objs, contract_address).id,
                                  "Prohibited"),
                  contract_id_from_address(objs, contract_address).id)

\* try_call, up to the dispatch: the same head, reentry Prohibited as well
try_call(objs, ctx, contract_address, args) ==
    IF call_args_from_obj(objs, args) # NoError
    THEN Dispatch(TRUE, call_args_from_obj(objs, args), 0)
    ELSE IF contract_id_from_address(objs, contract_address).err # NoError
    THEN Dispatch(TRUE, contract_id_from_address(objs, contract_address).err, 0)
    ELSE Dispatch(FALSE,
                  call_n_internal(ctx, contract_id_from_address(objs, contract_address).id,
                                  "Prohibited"),
                  contract_id_from_address(objs, contract_address).id)

\* call, after call_n_internal returned res: res is returned as it is
call_result(res) ==
    res

\* try_call narrowing contract errors as well (no pass-through branch)
try_call_result_narrows_contract(res) ==
    IF res.ok
    THEN Ok(res.val)
    ELSE IF is_recoverable(res.err)
    THEN Ok(to_val(Error(ScErrorType.Context, ScErrorCode.InvalidAction)))
    ELSE Err(res.err)

\* try_call handing every error to the guest (no is_recoverable test)
try_call_result_recovers_all(res) ==
    IF res.ok
    THEN Ok(res.val)
    ELSE IF is_type(res.err, ScErrorType.Contract)
    THEN Ok(to_val(res.err))
    ELSE Ok(to_val(Error(ScErrorType.Context, ScErrorCode.InvalidAction)))

\* try_call, after call_n_internal returned res: the match on res
try_call_result(res) ==
    IF res.ok
    THEN Ok(res.val)
    ELSE IF is_recoverable(res.err)
    THEN IF is_type(res.err, ScErrorType.Contract)
         THEN Ok(to_val(res.err))
         ELSE Ok(to_val(Error(ScErrorType.Context, ScErrorCode.InvalidAction)))
    ELSE Err(res.err)

\* fail_with_error without the type test: every error is raised as given
fail_with_error_any_type(error) ==
    Err(error)

\* fail_with_error: Err in both branches
fail_with_error(error) ==
    IF is_type(error, ScErrorType.Contract)
    THEN Err(error)
    ELSE Err(Error(ScErrorType.Context, ScErrorCode.UnexpectedType))

\* bytes_get: the byte at index i of a Bytes object, as a U32Val
bytes_get(objs, b, iv) ==
    IF visit_obj(objs, b) # NoError
    THEN Err(visit_obj(objs, b))
    ELSE IF Index(iv) + 1 \in 1..Len(objs[Index(b)].val)
    THEN Ok(U32Val(objs[Index(b)].val[Index(iv) + 1]))
    ELSE Err(Error(ScErrorType.Object, ScErrorCode.IndexBounds))

\* with_ledger_info as used by get_ledger_sequence: fails when no ledger info
\* was set; the sequence number itself is not modelled
get_ledger_sequence(li) ==
    IF li
    THEN Ok(U32Val(0))
    ELSE Err(Error(ScErrorType.Context, ScErrorCode.InternalError))

\* Budget::charge, reached through charge_budget, when a limit is crossed
charge_budget_exceeded ==
    Err(Error(ScErrorType.Budget, ScErrorCode.ExceededLimit))

(***************************************************************************)
(* The record of the last host-function call.                              *)
(*   fn      the host function ("invoke" for the embedder's top-level call)*)
(*   args    its Val arguments                                             *)
(*   early   call / try_call returned before reaching call_n_internal      *)
(*   reenter the target of call / try_call was on the frame stack          *)
(*   depth   the depth of the frame stack when the function was called     *)
(*   callee  what call_n_internal returned to call / try_call              *)
(*   res     what the host function returned                               *)
(***************************************************************************)
HRes(fn, args, early, reenter, depth, callee, res) ==
    [fn |-> fn, args |-> args, early |-> early, reenter |-> reenter,
     depth |-> depth, callee |-> callee, res |-> res]

\* a host function that is neither call nor try_call
HPlain(fn, args, depth, res) ==
    HRes(fn, args, FALSE, FALSE, depth, res, res)

NoCall ==
    HPlain("none", <<>>, 0, Ok(VOID))

\* call / try_call pushed a frame: the callee runs, no host function has
\* returned yet
Entered(contract_address, args, depth) ==
    HPlain("enter", <<contract_address, args>>, depth, Ok(VOID))

\* a guest that gets Err from a host function traps: its frame unwinds with
\* that error
Trap(res) ==
    IF res.ok THEN NoError ELSE res.err

Top(ctx) ==
    ctx[Len(ctx)]

Pop(ctx) ==
    SubSeq(ctx, 1, Len(ctx) - 1)

Running ==
    context # <<>> /\ pend = NoError

(***************************************************************************)
(* The registry the call path runs over: one address object per contract   *)
(* id 0..NumContracts, an account address, a vector of call arguments and a*)
(* one-byte Bytes object.                                                  *)
(***************************************************************************)
CallObjects ==
    [i \in 1..(NumContracts + 1) |-> AddressContract(i - 1)]
        \o <<AddressAccount(0), HostObject("VecObject", <<>>),
             HostObject("BytesObject", <<7>>)>>

\* the address handles a guest passes: every entry of the registry tagged as
\* an address, and one handle past the end of the registry
AddressArgs ==
    {Handle("AddressObject", i) : i \in 1..(NumContracts + 3)}
        \cup {Handle("AddressObject", Len(CallObjects) + 1)}

VecArgs ==
    {Handle("VecObject", NumContracts + 3), Handle("VecObject", Len(CallObjects) + 1)}

\* the values a contract function returns
RetVals ==
    {VOID, U32Val(7)}

\* the errors a guest hands to fail_with_error
GuestErrors ==
    {Error(ScErrorType.Contract, 1), Error(ScErrorType.Contract, 42),
     Error(ScErrorType.Contract, ScErrorCode.InternalError),
     Error(ScErrorType.Context, ScErrorCode.UnexpectedType),
     Error(ScErrorType.Storage, ScErrorCode.MissingValue),
     Error(ScErrorType.Budget, ScErrorCode.ExceededLimit)}

\* Budget: the cpu and memory counters against their limits
Budget(cpu_limit, mem_limit) ==
    [cpu |-> 0, mem |-> 0, cpu_limit |-> cpu_limit, mem_limit |-> mem_limit]

\* the RefCells of HostImpl that are borrowed across calls: the flag of a
\* cell is the number of shared borrows, or -1 under a mutable borrow; held
\* lists the borrows that are outstanding, the latest last
NoBorrows ==
    [flag |-> [authorization_manager |-> 0, ledger |-> 0], held |-> <<>>]

\* the threads that call into the host in tests
Threads ==
    {1, 2}

\* the process before any call of call_with_suppressed_panic_hook, with
\* panic hook original: the Once is new, the registered hook is the original
\* one, every thread's TEST_CONTRACT_CALL_COUNT is 0 and no thread is in a
\* call; calls[t] are the calls thread t is in, the innermost last, each at
\* a position of the function; panic is the last panic: its thread, the
\* thread's count then, and the hook that ran
NewTestutils(original) ==
    [WRAP_PANIC_HOOK |-> "Incomplete", original |-> original,
     existing_panic_hook |-> "none", hook |-> original, wrapped |-> 0,
     TEST_CONTRACT_CALL_COUNT |-> [t \in Threads |-> 0],
     calls |-> [t \in Threads |-> <<>>],
     panic |-> [thread |-> 0, count |-> 0, ran |-> "none"]]

NoTestutils ==
    NewTestutils("default_hook")

\* AuthorizationManager::new_enforcing_without_authorizations: the enforcing
\* mode with no authorization entry; entries are the addresses with an
\* unconsumed entry, recorded the require_auth calls of the recording mode
new_enforcing_without_authorizations ==
    [mode |-> "Enforcing", entries |-> {}, recorded |-> <<>>]

\* a host with empty storage, no event, an empty guest memory and a budget
\* with nothing charged
InitEnv ==
    /\ storage = [footprint |-> {}, map |-> {}]
    /\ instance = <<>>
    /\ events = <<>>
    /\ budget = Budget(0, 0)
    /\ diagnostic_level = "None"
    /\ refs = 1
    /\ memory = [slices |-> <<>>, vals |-> <<>>]
    /\ authorization_manager = new_enforcing_without_authorizations
    /\ borrows = NoBorrows
    /\ testutils = NoTestutils

InitCall ==
    /\ objects = CallObjects
    /\ context = <<>>
    /\ pend = NoError
    /\ ledger = FALSE
    /\ hres = NoCall
    /\ InitEnv

\* the embedder sets the ledger info between invocations
SetLedgerInfo ==
    /\ context = <<>>
    /\ ledger' = TRUE
    /\ UNCHANGED <<objects, context, pend, hres>>

\* the embedder invokes a deployed contract: the root frame is pushed
InvokeFunction(id) ==
    /\ context = <<>>
    /\ context' = <<Frame(id, "invoke")>>
    /\ pend' = NoError
    /\ hres' = NoCall
    /\ UNCHANGED <<objects, ledger>>

\* what the frame below gets when the callee's outcome r is known
Deliver(via, r) ==
    IF via = "call" THEN call_result(r) ELSE try_call_result(r)

\* the running contract calls `call`
Call(contract_address, args) ==
    /\ Running
    /\ LET d == call(objects, context, contract_address, args)
           reenter == ~d.early /\ OnStack(context, d.id)
       IN  IF d.early
           THEN /\ hres' = HRes("call", <<contract_address, args>>, TRUE, FALSE,
                                Len(context), Err(d.err), Err(d.err))
                /\ pend' = d.err
                /\ UNCHANGED context
           ELSE IF d.err # NoError
           THEN /\ hres' = HRes("call", <<contract_address, args>>, FALSE, reenter,
                                Len(context), Err(d.err), call_result(Err(d.err)))
                /\ pend' = Trap(call_result(Err(d.err)))
                /\ UNCHANGED context
           ELSE /\ context' = Append(context, Frame(d.id, "call"))
                /\ hres' = Entered(contract_address, args, Len(context))
                /\ UNCHANGED pend
    /\ UNCHANGED <<objects, ledger>>

\* the running contract calls `try_call`
TryCall(contract_address, args) ==
    /\ Running
    /\ LET d == try_call(objects, context, contract_address, args)
           reenter == ~d.early /\ OnStack(context, d.id)
       IN  IF d.early
           THEN /\ hres' = HRes("try_call", <<contract_address, args>>, TRUE, FALSE,
                                Len(context), Err(d.err), Err(d.err))
                /\ pend' = d.err
                /\ UNCHANGED context
           ELSE IF d.err # NoError
           THEN /\ hres' = HRes("try_call", <<contract_address, args>>, FALSE, reenter,
                                Len(context), Err(d.err), try_call_result(Err(d.err)))
                /\ pend' = Trap(try_call_result(Err(d.err)))
                /\ UNCHANGED context
           ELSE /\ context' = Append(context, Frame(d.id, "try_call"))
                /\ hres' = Entered(contract_address, args, Len(context))
                /\ UNCHANGED pend
    /\ UNCHANGED <<objects, ledger>>

\* the top frame ends with outcome r: it is popped and the frame below gets
\* the result of its call / try_call; the root frame's outcome goes to the
\* embedder
FrameExit(r) ==
    /\ context' = Pop(context)
    /\ IF Top(context).via = "invoke"
       THEN /\ hres' = HPlain("invoke", <<>>, 0, r)
            /\ pend' = NoError
       ELSE /\ hres' = HRes(Top(context).via, <<>>, FALSE, FALSE, Len(context) - 1,
                            r, Deliver(Top(context).via, r))
            /\ pend' = Trap(Deliver(Top(context).via, r))
    /\ UNCHANGED <<objects, ledger>>

\* the running contract function returns a value
Return(v) ==
    /\ Running
    /\ FrameExit(Ok(v))

\* the trapped contract's frame unwinds with the error it trapped on
Unwind ==
    /\ context # <<>>
    /\ pend # NoError
    /\ FrameExit(Err(pend))

\* the running contract calls fail_with_error
FailWithError(error) ==
    /\ Running
    /\ hres' = HPlain("fail_with_error", <<to_val(error)>>, Len(context),
                      fail_with_error(error))
    /\ pend' = Trap(fail_with_error(error))
    /\ UNCHANGED <<objects, context, ledger>>

\* the running contract calls bytes_get
BytesGet(b, iv) ==
    /\ Running
    /\ hres' = HPlain("bytes_get", <<b, iv>>, Len(context), bytes_get(objects, b, iv))
    /\ pend' = Trap(bytes_get(objects, b, iv))
    /\ UNCHANGED <<objects, context, ledger>>

\* the running contract calls get_ledger_sequence
GetLedgerSequence ==
    /\ Running
    /\ hres' = HPlain("get_ledger_sequence", <<>>, Len(context), get_ledger_sequence(ledger))
    /\ pend' = Trap(get_ledger_sequence(ledger))
    /\ UNCHANGED <<objects, context, ledger>>

\* a host function the running contract calls runs out of budget
ChargeBudget ==
    /\ Running
    /\ hres' = HPlain("charge_budget", <<>>, Len(context), charge_budget_exceeded)
    /\ pend' = Trap(charge_budget_exceeded)
    /\ UNCHANGED <<objects, context, ledger>>

\* the call path touches neither storage, events, budget counters nor memory
NextCall ==
    /\ \/ SetLedgerInfo
       \/ \E id \in Deployed : InvokeFunction(id)
       \/ \E a \in AddressArgs, v \in VecArgs : Call(a, v)
       \/ \E a \in AddressArgs, v \in VecArgs : TryCall(a, v)
       \/ \E v \in RetVals : Return(v)
       \/ Unwind
       \/ \E e \in GuestErrors : FailWithError(e)
       \/ \E i \in {0, 1} : BytesGet(Handle("BytesObject", NumContracts + 4), U32Val(i))
       \/ GetLedgerSequence
       \/ ChargeBudget
    /\ UNCHANGED env

SpecCall ==
    InitCall /\ [][NextCall]_vars

(***************************************************************************)
(* Value comparison: the host order on Vals and host objects (4.4), and    *)
(* obj_cmp.                                                                *)
(***************************************************************************)
\* Tag::get_scval_type: the ordinal of the ScVal type a tag stands for
ScValType ==
    [Bool |-> 0, Void |-> 1, Error |-> 2, U32Val |-> 3, U64Small |-> 5, U64Object |-> 5,
     BytesObject |-> 13, SymbolSmall |-> 15, SymbolObject |-> 15,
     VecObject |-> 16, MapObject |-> 17, AddressObject |-> 18]

\* Ordering as a number: Less = -1, Equal = 0, Greater = 1
Ord(x, y) ==
    IF x < y THEN -1 ELSE IF x > y THEN 1 ELSE 0

\* Option<Ordering>
Some(ord) ==
    [some |-> TRUE, ord |-> ord]

None ==
    [some |-> FALSE, ord |-> 0]

\* lexicographic order of two sequences of numbers (bytes, symbol characters)
RECURSIVE CmpBytes(_, _, _)
CmpBytes(s, t, i) ==
    IF i > Len(s) /\ i > Len(t) THEN 0
    ELSE IF i > Len(s) THEN -1
    ELSE IF i > Len(t) THEN 1
    ELSE IF s[i] # t[i] THEN Ord(s[i], t[i])
    ELSE CmpBytes(s, t, i + 1)

\* a map's entries as one sequence k1, v1, k2, v2, ...
Flatten(m) ==
    [i \in 1..(2 * Len(m)) |-> m[(i + 1) \div 2][2 - (i % 2)]]

\* HostObject::try_compare_to_small: an object against an immediate of the
\* small-value kind of its own type; None for any other immediate
try_compare_to_small(ho, rv) ==
    IF ho.type = "U64Object" /\ rv.tag = "U64Small"
    THEN Some(Ord(ho.val[1], rv.body[1]))
    ELSE IF ho.type = "SymbolObject" /\ rv.tag = "SymbolSmall"
    THEN Some(CmpBytes(ho.val, rv.body, 1))
    ELSE None

RECURSIVE compare(_, _, _)
RECURSIVE compare_obj(_, _, _)
RECURSIVE CmpVals(_, _, _, _)

\* Compare<HostObject>: the canonical order of one type, else the ScVal type
compare_obj(objs, x, y) ==
    IF x.type # y.type THEN Ord(ScValType[x.type], ScValType[y.type])
    ELSE IF x.type = "VecObject" THEN CmpVals(objs, x.val, y.val, 1)
    ELSE IF x.type = "MapObject" THEN CmpVals(objs, Flatten(x.val), Flatten(y.val), 1)
    ELSE CmpBytes(x.val, y.val, 1)

\* Compare<Val>: the total order of 4.4 on Vals that pass check_val_integrity
compare(objs, a, b) ==
    IF IsObject(a) /\ IsObject(b)
    THEN compare_obj(objs, objs[Index(a)], objs[Index(b)])
    ELSE IF IsObject(a) /\ try_compare_to_small(objs[Index(a)], b).some
    THEN try_compare_to_small(objs[Index(a)], b).ord
    ELSE IF IsObject(b) /\ try_compare_to_small(objs[Index(b)], a).some
    THEN 0 - try_compare_to_small(objs[Index(b)], a).ord
    ELSE IF a.tag = b.tag
    THEN CmpBytes(a.body, b.body, 1)
    ELSE Ord(ScValType[a.tag], ScValType[b.tag])

\* lexicographic, element-wise order of two sequences of Vals
CmpVals(objs, s, t, i) ==
    IF i > Len(s) /\ i > Len(t) THEN 0
    ELSE IF i > Len(s) THEN -1
    ELSE IF i > Len(t) THEN 1
    ELSE IF compare(objs, s[i], t[i]) # 0 THEN compare(objs, s[i], t[i])
    ELSE CmpVals(objs, s, t, i + 1)

\* a raw i64 returned to the guest
I64(n) ==
    Val("I64", <<n>>)

\* obj_cmp with the mirrored branch not reversing the order
obj_cmp_match_unreversed(objs, a, b) ==
    IF IsObject(a) /\ IsObject(b)
    THEN Some(compare_obj(objs, objs[Index(a)], objs[Index(b)]))
    ELSE IF IsObject(a)
    THEN try_compare_to_small(objs[Index(a)], b)
    ELSE try_compare_to_small(objs[Index(b)], a)

\* the Option<Ordering> obj_cmp gets out of its first match
obj_cmp_match(objs, a, b) ==
    IF IsObject(a) /\ IsObject(b)
    THEN Some(compare_obj(objs, objs[Index(a)], objs[Index(b)]))
    ELSE IF IsObject(a)
    THEN try_compare_to_small(objs[Index(a)], b)
    ELSE IF try_compare_to_small(objs[Index(b)], a).some
    THEN Some(0 - try_compare_to_small(objs[Index(b)], a).ord)
    ELSE None

\* obj_cmp without the ScVal type fallback: an unpaired immediate is an error
obj_cmp_no_type_fallback(objs, a, b) ==
    IF ~check_val_integrity(objs, a) \/ ~check_val_integrity(objs, b)
    THEN Err(Error(ScErrorType.Value, ScErrorCode.InvalidInput))
    ELSE IF ~IsObject(a) /\ ~IsObject(b)
    THEN Err(Error(ScErrorType.Value, ScErrorCode.UnexpectedType))
    ELSE IF obj_cmp_match(objs, a, b).some
    THEN Ok(I64(obj_cmp_match(objs, a, b).ord))
    ELSE Err(Error(ScErrorType.Value, ScErrorCode.InternalError))

\* obj_cmp
obj_cmp(objs, a, b) ==
    IF ~check_val_integrity(objs, a) \/ ~check_val_integrity(objs, b)
    THEN Err(Error(ScErrorType.Value, ScErrorCode.InvalidInput))
    ELSE IF ~IsObject(a) /\ ~IsObject(b)
    THEN Err(Error(ScErrorType.Value, ScErrorCode.UnexpectedType))
    ELSE IF obj_cmp_match(objs, a, b).some
    THEN Ok(I64(obj_cmp_match(objs, a, b).ord))
    ELSE IF ScValType[a.tag] = ScValType[b.tag]
    THEN Err(Error(ScErrorType.Value, ScErrorCode.InternalError))
    ELSE Ok(I64(Ord(ScValType[a.tag], ScValType[b.tag])))

(***************************************************************************)
(* Host maps: a HostMap is the sequence of its <<key, value>> entries in   *)
(* strictly ascending host order of the keys.                              *)
(***************************************************************************)
\* the position of key k in map m, 0 when m has no such key
MapFind(objs, m, k) ==
    IF \E i \in 1..Len(m) : compare(objs, m[i][1], k) = 0
    THEN CHOOSE i \in 1..Len(m) : compare(objs, m[i][1], k) = 0
    ELSE 0

\* HostMap::insert: replace the entry of an equal key, else insert in order
HostMap_insert(objs, m, k, v) ==
    IF MapFind(objs, m, k) # 0
    THEN [m EXCEPT ![MapFind(objs, m, k)] = <<k, v>>]
    ELSE LET n == Cardinality({i \in 1..Len(m) : compare(objs, m[i][1], k) < 0})
         IN  SubSeq(m, 1, n) \o <<(<<k, v>>)>> \o SubSeq(m, n + 1, Len(m))

\* HostMap::remove: the map without the entry of key k
HostMap_remove(objs, m, k) ==
    SubSeq(m, 1, MapFind(objs, m, k) - 1) \o SubSeq(m, MapFind(objs, m, k) + 1, Len(m))

\* HostMap::from_map / from_exact_iter accept entries in strictly ascending
\* key order only
HostMap_from_map_ok(objs, m) ==
    \A i \in 1..(Len(m) - 1) : compare(objs, m[i][1], m[i + 1][1]) < 0

(***************************************************************************)
(* Constructors of host objects from host-side slices (EnvBase).           *)
(***************************************************************************)
\* the longest symbol that fits an immediate
SymbolSmallMaxLen ==
    9

\* Symbol::try_from_val(&str): character 0 stands for a character outside
\* the symbol alphabet; a long symbol becomes an object
symbol_from_str(objs, str) ==
    IF \E i \in 1..Len(str) : str[i] = 0
    THEN Fail(objs, Error(ScErrorType.Value, ScErrorCode.InvalidInput))
    ELSE IF Len(str) <= SymbolSmallMaxLen
    THEN Out(Ok(Val("SymbolSmall", str)), objs)
    ELSE add_host_object(objs, HostObject("SymbolObject", str))

\* obj_from_u64
obj_from_u64(objs, n) ==
    add_host_object(objs, HostObject("U64Object", <<n>>))

\* symbol_new_from_slice: validate the characters, add the symbol object
symbol_new_from_slice(objs, str) ==
    IF \E i \in 1..Len(str) : str[i] = 0
    THEN Fail(objs, Error(ScErrorType.Value, ScErrorCode.InvalidInput))
    ELSE add_host_object(objs, HostObject("SymbolObject", str))

\* vec_new_from_slice: every element must pass check_val_integrity
vec_new_from_slice(objs, vals) ==
    IF \E i \in 1..Len(vals) : ~check_val_integrity(objs, vals[i])
    THEN Fail(objs, Error(ScErrorType.Value, ScErrorCode.InvalidInput))
    ELSE add_host_object(objs, HostObject("VecObject", vals))

\* the zip / map / collect of map_new_from_slices from position i on: the
\* entries built, the registry after the key conversions, the first error
RECURSIVE map_vec_from_slices(_, _, _, _)
map_vec_from_slices(objs, keys, vals, i) ==
    IF i > Len(keys)
    THEN [err |-> NoError, objects |-> objs, map |-> <<>>]
    ELSE LET sym == symbol_from_str(objs, keys[i])
         IN  IF ~sym.res.ok
             THEN [err |-> sym.res.err, objects |-> sym.objects, map |-> <<>>]
             ELSE IF ~check_val_integrity(sym.objects, vals[i])
             THEN [err |-> Error(ScErrorType.Value, ScErrorCode.InvalidInput),
                   objects |-> sym.objects, map |-> <<>>]
             ELSE LET rest == map_vec_from_slices(sym.objects, keys, vals, i + 1)
                  IN  [err |-> rest.err, objects |-> rest.objects,
                       map |-> <<(<<sym.res.val, vals[i]>>)>> \o rest.map]

\* map_new_from_slices
map_new_from_slices(objs, keys, vals) ==
    IF Len(keys) # Len(vals)
    THEN Fail(objs, Error(ScErrorType.Object, ScErrorCode.UnexpectedSize))
    ELSE LET mv == map_vec_from_slices(objs, keys, vals, 1)
         IN  IF mv.err # NoError
             THEN Fail(mv.objects, mv.err)
             ELSE IF ~HostMap_from_map_ok(mv.objects, mv.map)
             THEN Fail(mv.objects, Error(ScErrorType.Object, ScErrorCode.InvalidInput))
             ELSE add_host_object(mv.objects, HostObject("MapObject", mv.map))

(***************************************************************************)
(* SpecCmp: registries of at most MaxCmpObjects objects built from slices, *)
(* and obj_cmp applied to every pair of Vals over them.                    *)
(***************************************************************************)
U64Small(n) ==
    Val("U64Small", <<n>>)

SymbolSmall(str) ==
    Val("SymbolSmall", str)

\* the handles of the entries of a registry
HandlesOf(objs) ==
    {Handle(objs[i].type, i) : i \in 1..Len(objs)}

\* a handle past the end of the registry: it fails check_val_integrity
Dangling(objs) ==
    Handle("VecObject", Len(objs) + 1)

\* the immediates a guest passes
SmallVals ==
    {VOID, U32Val(1), U64Small(1), U64Small(2), SymbolSmall(<<1>>)}

\* the Vals a guest passes to obj_cmp
CmpArgs ==
    SmallVals \cup HandlesOf(objects) \cup {Dangling(objects)}

\* the slices a vector is built from
CmpVecSlices ==
    {<<>>} \cup {<<v>> : v \in {U64Small(1), Dangling(objects)} \cup HandlesOf(objects)}

\* the key and value slices a map is built from: <<keys, vals>>
CmpMapSlices ==
    {<<(<<>>), (<<>>)>>, <<(<<(<<1>>)>>), (<<>>)>>, <<(<<(<<0>>)>>), (<<VOID>>)>>,
     <<(<<(<<2>>), (<<1>>)>>), (<<VOID, VOID>>)>>}
        \cup {<<(<<(<<1>>)>>), (<<v>>)>> : v \in {U64Small(1)} \cup HandlesOf(objects)}

InitCmp ==
    /\ objects = <<>>
    /\ context = <<>>
    /\ pend = NoError
    /\ ledger = FALSE
    /\ hres = NoCall
    /\ InitEnv

\* a host function called outside any frame that adds to the registry
Apply(fn, args, out) ==
    /\ hres' = HPlain(fn, args, 0, out.res)
    /\ objects' = out.objects
    /\ UNCHANGED <<context, pend, ledger>>
    /\ UNCHANGED env

CmpObjFromU64(n) ==
    /\ Len(objects) < MaxCmpObjects
    /\ Apply("obj_from_u64", <<>>, obj_from_u64(objects, n))

CmpSymbolNewFromSlice(str) ==
    /\ Len(objects) < MaxCmpObjects
    /\ Apply("symbol_new_from_slice", <<>>, symbol_new_from_slice(objects, str))

CmpVecNewFromSlice(vals) ==
    /\ Len(objects) < MaxCmpObjects
    /\ Apply("vec_new_from_slice", vals, vec_new_from_slice(objects, vals))

CmpMapNewFromSlices(keys, vals) ==
    /\ Len(objects) < MaxCmpObjects
    /\ Apply("map_new_from_slices", vals, map_new_from_slices(objects, keys, vals))

ObjCmp(a, b) ==
    Apply("obj_cmp", <<a, b>>, Out(obj_cmp(objects, a, b), objects))

NextCmp ==
    \/ \E n \in {1, 2} : CmpObjFromU64(n)
    \/ \E str \in {<<1>>, <<2>>, <<0>>} : CmpSymbolNewFromSlice(str)
    \/ \E vals \in CmpVecSlices : CmpVecNewFromSlice(vals)
    \/ \E kv \in CmpMapSlices : CmpMapNewFromSlices(kv[1], kv[2])
    \/ \E a \in CmpArgs, b \in CmpArgs : ObjCmp(a, b)

SpecCmp ==
    InitCmp /\ [][NextCmp]_vars

(***************************************************************************)
(* The metered host: storage (4.5), events (4.10) and the budget (4.1).    *)
(* The functions below take the host as a record of the HostImpl fields    *)
(* they touch and return their Result with the host they leave.            *)
(***************************************************************************)
\* the HostImpl fields as the variables hold them
self ==
    [objects |-> objects, context |-> context, storage |-> storage,
     instance |-> instance, events |-> events, budget |-> budget,
     diagnostic_level |-> diagnostic_level]

Ret(res, h) ==
    [res |-> res, host |-> h]

\* Budget::charge, n times in a row: each charge adds one to the cpu and to
\* the memory counter, and fails with Budget/ExceededLimit when a counter
\* crosses its limit; the charge that fails is the last
charge(h, n) ==
    LET b == h.budget
        room == IF b.cpu_limit - b.cpu < b.mem_limit - b.mem
                THEN b.cpu_limit - b.cpu ELSE b.mem_limit - b.mem
        k == IF n <= room THEN n ELSE IF room < 0 THEN 1 ELSE room + 1
    IN  Ret(IF n <= room
            THEN Ok(VOID)
            ELSE Err(Error(ScErrorType.Budget, ScErrorCode.ExceededLimit)),
            [h EXCEPT !.budget.cpu = @ + k, !.budget.mem = @ + k])

\* the StorageType a guest passes
StorageType ==
    [Temporary |-> 0, Persistent |-> 1, Instance |-> 2]

\* ScVal: the ledger form of a value, its kind and its content
ScVal(kind, val) ==
    [kind |-> kind, val |-> val]

\* from_host_val: the ScVal of a Val that passes check_val_integrity; small
\* and object forms of one value convert to the same ScVal
RECURSIVE from_host_val(_, _)
from_host_val(objs, v) ==
    CASE v.tag = "Void" -> ScVal("Void", <<>>)
      [] v.tag = "Bool" -> ScVal("Bool", v.body)
      [] v.tag = "Error" -> ScVal("Error", v.body)
      [] v.tag = "U32Val" -> ScVal("U32", v.body)
      [] v.tag = "U64Small" -> ScVal("U64", v.body)
      [] v.tag = "SymbolSmall" -> ScVal("Symbol", v.body)
      [] v.tag = "U64Object" -> ScVal("U64", objs[Index(v)].val)
      [] v.tag = "SymbolObject" -> ScVal("Symbol", objs[Index(v)].val)
      [] v.tag = "BytesObject" -> ScVal("Bytes", objs[Index(v)].val)
      [] v.tag = "AddressObject" -> ScVal("Address", objs[Index(v)].val)
      [] v.tag = "VecObject" ->
            ScVal("Vec", [i \in 1..Len(objs[Index(v)].val) |->
                            from_host_val(objs, objs[Index(v)].val[i])])
      [] v.tag = "MapObject" ->
            ScVal("Map", [i \in 1..Len(objs[Index(v)].val) |->
                            <<from_host_val(objs, objs[Index(v)].val[i][1]),
                              from_host_val(objs, objs[Index(v)].val[i][2])>>])

\* to_host_val: the Val of an ScVal, adding the objects it needs to the
\* registry, the elements of a vector before the vector; a charge precedes
\* every object added, and the conversion stops at the charge that fails
RECURSIVE to_host_val(_, _)
to_host_val(h, sv) ==
    LET add(hh, ho) ==
            IF ~charge(hh, 1).res.ok
            THEN charge(hh, 1)
            ELSE LET out == add_host_object(hh.objects, ho)
                 IN  Ret(out.res, [charge(hh, 1).host EXCEPT !.objects = out.objects])
        RECURSIVE to_host_vals(_, _, _, _)
        to_host_vals(hh, svs, i, acc) ==
            IF i > Len(svs)
            THEN [res |-> Ok(VOID), host |-> hh, vals |-> acc]
            ELSE LET r == to_host_val(hh, svs[i])
                 IN  IF ~r.res.ok
                     THEN [res |-> r.res, host |-> r.host, vals |-> acc]
                     ELSE to_host_vals(r.host, svs, i + 1, Append(acc, r.res.val))
    IN  CASE sv.kind = "Void" -> Ret(Ok(VOID), h)
          [] sv.kind = "Bool" -> Ret(Ok(Val("Bool", sv.val)), h)
          [] sv.kind = "Error" -> Ret(Ok(Val("Error", sv.val)), h)
          [] sv.kind = "U32" -> Ret(Ok(Val("U32Val", sv.val)), h)
          [] sv.kind = "U64" -> Ret(Ok(Val("U64Small", sv.val)), h)
          [] sv.kind = "Symbol" ->
                IF Len(sv.val) <= SymbolSmallMaxLen
                THEN Ret(Ok(Val("SymbolSmall", sv.val)), h)
                ELSE add(h, HostObject("SymbolObject", sv.val))
          [] sv.kind = "Bytes" -> add(h, HostObject("BytesObject", sv.val))
          [] sv.kind = "Address" -> add(h, HostObject("AddressObject", sv.val))
          [] sv.kind = "Vec" ->
                LET r == to_host_vals(h, sv.val, 1, <<>>)
                IN  IF ~r.res.ok
                    THEN Ret(r.res, r.host)
                    ELSE add(r.host, HostObject("VecObject", r.vals))
          [] sv.kind = "Map" ->
                LET ks == to_host_vals(h, [i \in 1..Len(sv.val) |-> sv.val[i][1]], 1, <<>>)
                    vs == to_host_vals(ks.host, [i \in 1..Len(sv.val) |-> sv.val[i][2]], 1, <<>>)
                IN  IF ~ks.res.ok
                    THEN Ret(ks.res, ks.host)
                    ELSE IF ~vs.res.ok
                    THEN Ret(vs.res, vs.host)
                    ELSE add(vs.host, HostObject("MapObject",
                            [i \in 1..Len(sv.val) |-> <<ks.vals[i], vs.vals[i]>>]))

(***************************************************************************)
(* Map host functions. A MapObject entry holds the HostMap, the sequence   *)
(* of its <<key, value>> entries; positions given by the guest count from  *)
(* 0.                                                                      *)
(***************************************************************************)
BoolVal(b) ==
    Val("Bool", <<IF b THEN 1 ELSE 0>>)

\* map_new
map_new(objs) ==
    add_host_object(objs, HostObject("MapObject", <<>>))

\* map_put keeping the old value of a key the map has
map_put_no_replace(objs, m, k, v) ==
    IF ~check_val_integrity(objs, k) \/ ~check_val_integrity(objs, v)
    THEN Fail(objs, Error(ScErrorType.Value, ScErrorCode.InvalidInput))
    ELSE IF visit_obj(objs, m) # NoError
    THEN Fail(objs, visit_obj(objs, m))
    ELSE IF MapFind(objs, objs[Index(m)].val, k) # 0
    THEN add_host_object(objs, objs[Index(m)])
    ELSE add_host_object(objs,
            HostObject("MapObject", HostMap_insert(objs, objs[Index(m)].val, k, v)))

\* map_put
map_put(objs, m, k, v) ==
    IF ~check_val_integrity(objs, k) \/ ~check_val_integrity(objs, v)
    THEN Fail(objs, Error(ScErrorType.Value, ScErrorCode.InvalidInput))
    ELSE IF visit_obj(objs, m) # NoError
    THEN Fail(objs, visit_obj(objs, m))
    ELSE add_host_object(objs,
            HostObject("MapObject", HostMap_insert(objs, objs[Index(m)].val, k, v)))

\* map_get
map_get(objs, m, k) ==
    IF ~check_val_integrity(objs, k)
    THEN Err(Error(ScErrorType.Value, ScErrorCode.InvalidInput))
    ELSE IF visit_obj(objs, m) # NoError
    THEN Err(visit_obj(objs, m))
    ELSE IF MapFind(objs, objs[Index(m)].val, k) # 0
    THEN Ok(objs[Index(m)].val[MapFind(objs, objs[Index(m)].val, k)][2])
    ELSE Err(Error(ScErrorType.Object, ScErrorCode.MissingValue))

\* map_del
map_del(objs, m, k) ==
    IF ~check_val_integrity(objs, k)
    THEN Fail(objs, Error(ScErrorType.Value, ScErrorCode.InvalidInput))
    ELSE IF visit_obj(objs, m) # NoError
    THEN Fail(objs, visit_obj(objs, m))
    ELSE IF MapFind(objs, objs[Index(m)].val, k) # 0
    THEN add_host_object(objs,
            HostObject("MapObject", HostMap_remove(objs, objs[Index(m)].val, k)))
    ELSE Fail(objs, Error(ScErrorType.Object, ScErrorCode.MissingValue))

\* map_len
map_len(objs, m) ==
    IF visit_obj(objs, m) # NoError
    THEN Err(visit_obj(objs, m))
    ELSE Ok(U32Val(Len(objs[Index(m)].val)))

\* map_has
map_has(objs, m, k) ==
    IF ~check_val_integrity(objs, k)
    THEN Err(Error(ScErrorType.Value, ScErrorCode.InvalidInput))
    ELSE IF visit_obj(objs, m) # NoError
    THEN Err(visit_obj(objs, m))
    ELSE Ok(BoolVal(MapFind(objs, objs[Index(m)].val, k) # 0))

\* map_key_by_pos: get_at_index(i), first component
map_key_by_pos(objs, m, i) ==
    IF visit_obj(objs, m) # NoError
    THEN Err(visit_obj(objs, m))
    ELSE IF Index(i) + 1 \in 1..Len(objs[Index(m)].val)
    THEN Ok(objs[Index(m)].val[Index(i) + 1][1])
    ELSE Err(Error(ScErrorType.Object, ScErrorCode.IndexBounds))

\* map_val_by_pos returning the first component of the entry
map_val_by_pos_key(objs, m, i) ==
    IF visit_obj(objs, m) # NoError
    THEN Err(visit_obj(objs, m))
    ELSE IF Index(i) + 1 \in 1..Len(objs[Index(m)].val)
    THEN Ok(objs[Index(m)].val[Index(i) + 1][1])
    ELSE Err(Error(ScErrorType.Object, ScErrorCode.IndexBounds))

\* map_val_by_pos: get_at_index(i), second component
map_val_by_pos(objs, m, i) ==
    IF visit_obj(objs, m) # NoError
    THEN Err(visit_obj(objs, m))
    ELSE IF Index(i) + 1 \in 1..Len(objs[Index(m)].val)
    THEN Ok(objs[Index(m)].val[Index(i) + 1][2])
    ELSE Err(Error(ScErrorType.Object, ScErrorCode.IndexBounds))

\* map_keys: a new vector of the keys in the map's order
map_keys(objs, m) ==
    IF visit_obj(objs, m) # NoError
    THEN Fail(objs, visit_obj(objs, m))
    ELSE add_host_object(objs, HostObject("VecObject",
            [i \in 1..Len(objs[Index(m)].val) |-> objs[Index(m)].val[i][1]]))

\* map_values: a new vector of the values in the map's order
map_values(objs, m) ==
    IF visit_obj(objs, m) # NoError
    THEN Fail(objs, visit_obj(objs, m))
    ELSE add_host_object(objs, HostObject("VecObject",
            [i \in 1..Len(objs[Index(m)].val) |-> objs[Index(m)].val[i][2]]))

\* step 1 of map_new_from_linear_memory from key slice i on: each slice is
\* charged and converted, a long symbol into a new object; the symbols, the
\* host after converting them, the first error
RECURSIVE key_syms(_, _, _)
key_syms(h, keys, i) ==
    IF i > Len(keys)
    THEN [res |-> Ok(VOID), host |-> h, syms |-> <<>>]
    ELSE IF ~charge(h, 1).res.ok
    THEN [res |-> charge(h, 1).res, host |-> charge(h, 1).host, syms |-> <<>>]
    ELSE IF \E j \in 1..Len(keys[i]) : keys[i][j] = 0
    THEN [res |-> Err(Error(ScErrorType.Value, ScErrorCode.InvalidInput)),
          host |-> charge(h, 1).host, syms |-> <<>>]
    ELSE LET sym == to_host_val(charge(h, 1).host, ScVal("Symbol", keys[i]))
         IN  IF ~sym.res.ok
             THEN [res |-> sym.res, host |-> sym.host, syms |-> <<>>]
             ELSE LET rest == key_syms(sym.host, keys, i + 1)
                  IN  [res |-> rest.res, host |-> rest.host,
                       syms |-> <<sym.res.val>> \o rest.syms]

\* map_new_from_linear_memory: keys are the len byte slices found at
\* keys_pos, vals the len Vals found at vals_pos in the guest's memory
map_new_from_linear_memory(h, keys, vals) ==
    LET c1 == charge(h, 1)
        ks == key_syms(c1.host, keys, 1)
        c2 == charge(ks.host, 2)
        c3 == charge(c2.host, 1)
        c4 == charge(c3.host, 1)
        out == add_host_object(c4.host.objects, HostObject("MapObject",
                    [i \in 1..Len(vals) |-> <<ks.syms[i], vals[i]>>]))
    IN  IF ~c1.res.ok
        THEN c1
        ELSE IF ~ks.res.ok
        THEN Ret(ks.res, ks.host)
        ELSE IF ~c2.res.ok
        THEN c2
        ELSE IF \E i \in 1..Len(vals) : ~check_val_integrity(c2.host.objects, vals[i])
        THEN Ret(Err(Error(ScErrorType.Value, ScErrorCode.InvalidInput)), c2.host)
        ELSE IF ~c3.res.ok
        THEN c3
        ELSE IF ~HostMap_from_map_ok(c3.host.objects, [i \in 1..Len(vals) |-> <<ks.syms[i], vals[i]>>])
        THEN Ret(Err(Error(ScErrorType.Object, ScErrorCode.InvalidInput)), c3.host)
        ELSE IF ~c4.res.ok
        THEN c4
        ELSE Ret(out.res, [c4.host EXCEPT !.objects = out.objects])

(***************************************************************************)
(* Vector and bytes host functions. A VecObject entry holds the sequence   *)
(* of its Vals, a BytesObject entry the sequence of its bytes.             *)
(***************************************************************************)
\* vec_new
vec_new(objs) ==
    add_host_object(objs, HostObject("VecObject", <<>>))

\* vec_put writing the element into the vector's entry and returning its handle
vec_put_in_place(objs, v, i, x) ==
    IF ~check_val_integrity(objs, x)
    THEN Fail(objs, Error(ScErrorType.Value, ScErrorCode.InvalidInput))
    ELSE IF visit_obj(objs, v) # NoError
    THEN Fail(objs, visit_obj(objs, v))
    ELSE IF ~(Index(i) < Len(objs[Index(v)].val))
    THEN Fail(objs, Error(ScErrorType.Object, ScErrorCode.IndexBounds))
    ELSE Out(Ok(v), [objs EXCEPT ![Index(v)] =
                HostObject("VecObject", [objs[Index(v)].val EXCEPT ![Index(i) + 1] = x])])

\* vec_put
vec_put(objs, v, i, x) ==
    IF ~check_val_integrity(objs, x)
    THEN Fail(objs, Error(ScErrorType.Value, ScErrorCode.InvalidInput))
    ELSE IF visit_obj(objs, v) # NoError
    THEN Fail(objs, visit_obj(objs, v))
    ELSE IF ~(Index(i) < Len(objs[Index(v)].val))
    THEN Fail(objs, Error(ScErrorType.Object, ScErrorCode.IndexBounds))
    ELSE add_host_object(objs,
            HostObject("VecObject", [objs[Index(v)].val EXCEPT ![Index(i) + 1] = x]))

\* vec_get
vec_get(objs, v, i) ==
    IF visit_obj(objs, v) # NoError
    THEN Err(visit_obj(objs, v))
    ELSE IF ~(Index(i) < Len(objs[Index(v)].val))
    THEN Err(Error(ScErrorType.Object, ScErrorCode.IndexBounds))
    ELSE Ok(objs[Index(v)].val[Index(i) + 1])

\* vec_del
vec_del(objs, v, i) ==
    IF visit_obj(objs, v) # NoError
    THEN Fail(objs, visit_obj(objs, v))
    ELSE IF ~(Index(i) < Len(objs[Index(v)].val))
    THEN Fail(objs, Error(ScErrorType.Object, ScErrorCode.IndexBounds))
    ELSE add_host_object(objs, HostObject("VecObject",
            SubSeq(objs[Index(v)].val, 1, Index(i))
                \o SubSeq(objs[Index(v)].val, Index(i) + 2, Len(objs[Index(v)].val))))

\* vec_len
vec_len(objs, v) ==
    IF visit_obj(objs, v) # NoError
    THEN Err(visit_obj(objs, v))
    ELSE Ok(U32Val(Len(objs[Index(v)].val)))

\* vec_push_back dropping the pushed element
vec_push_back_dropped(objs, v, x) ==
    IF ~check_val_integrity(objs, x)
    THEN Fail(objs, Error(ScErrorType.Value, ScErrorCode.InvalidInput))
    ELSE IF visit_obj(objs, v) # NoError
    THEN Fail(objs, visit_obj(objs, v))
    ELSE add_host_object(objs, HostObject("VecObject", objs[Index(v)].val))

\* vec_push_back
vec_push_back(objs, v, x) ==
    IF ~check_val_integrity(objs, x)
    THEN Fail(objs, Error(ScErrorType.Value, ScErrorCode.InvalidInput))
    ELSE IF visit_obj(objs, v) # NoError
    THEN Fail(objs, visit_obj(objs, v))
    ELSE add_host_object(objs, HostObject("VecObject", Append(objs[Index(v)].val, x)))

\* vec_pop_back: fails on the empty vector
vec_pop_back(objs, v) ==
    IF visit_obj(objs, v) # NoError
    THEN Fail(objs, visit_obj(objs, v))
    ELSE IF Len(objs[Index(v)].val) = 0
    THEN Fail(objs, Error(ScErrorType.Object, ScErrorCode.IndexBounds))
    ELSE add_host_object(objs, HostObject("VecObject",
            SubSeq(objs[Index(v)].val, 1, Len(objs[Index(v)].val) - 1)))

\* vec_back: fails on the empty vector
vec_back(objs, v) ==
    IF visit_obj(objs, v) # NoError
    THEN Err(visit_obj(objs, v))
    ELSE IF Len(objs[Index(v)].val) = 0
    THEN Err(Error(ScErrorType.Object, ScErrorCode.IndexBounds))
    ELSE Ok(objs[Index(v)].val[Len(objs[Index(v)].val)])

\* vec_insert that takes a position only below the length
vec_insert_lt_bound(objs, v, i, x) ==
    IF ~check_val_integrity(objs, x)
    THEN Fail(objs, Error(ScErrorType.Value, ScErrorCode.InvalidInput))
    ELSE IF visit_obj(objs, v) # NoError
    THEN Fail(objs, visit_obj(objs, v))
    ELSE IF ~(Index(i) < Len(objs[Index(v)].val))
    THEN Fail(objs, Error(ScErrorType.Object, ScErrorCode.IndexBounds))
    ELSE add_host_object(objs, HostObject("VecObject",
            SubSeq(objs[Index(v)].val, 1, Index(i)) \o <<x>>
                \o SubSeq(objs[Index(v)].val, Index(i) + 1, Len(objs[Index(v)].val))))

\* vec_insert: a position up to and including the length
vec_insert(objs, v, i, x) ==
    IF ~check_val_integrity(objs, x)
    THEN Fail(objs, Error(ScErrorType.Value, ScErrorCode.InvalidInput))
    ELSE IF visit_obj(objs, v) # NoError
    THEN Fail(objs, visit_obj(objs, v))
    ELSE IF ~(Index(i) <= Len(objs[Index(v)].val))
    THEN Fail(objs, Error(ScErrorType.Object, ScErrorCode.IndexBounds))
    ELSE add_host_object(objs, HostObject("VecObject",
            SubSeq(objs[Index(v)].val, 1, Index(i)) \o <<x>>
                \o SubSeq(objs[Index(v)].val, Index(i) + 1, Len(objs[Index(v)].val))))

\* vec_append; the lengths here stay far below u32::MAX, so the overflow
\* branch of the length check is never taken
vec_append(objs, v1, v2) ==
    IF visit_obj(objs, v1) # NoError
    THEN Fail(objs, visit_obj(objs, v1))
    ELSE IF visit_obj(objs, v2) # NoError
    THEN Fail(objs, visit_obj(objs, v2))
    ELSE add_host_object(objs,
            HostObject("VecObject", objs[Index(v1)].val \o objs[Index(v2)].val))

\* valid_range_from_start_end_bound: the range start..end of a collection of
\* length bound, or the error of a range that runs backwards or past the end
valid_range_from_start_end_bound(start, end, bound) ==
    IF start > end
    THEN Err(Error(ScErrorType.Object, ScErrorCode.InvalidInput))
    ELSE IF ~(start <= bound /\ end <= bound)
    THEN Err(Error(ScErrorType.Object, ScErrorCode.IndexBounds))
    ELSE Ok([start |-> start, end |-> end])

\* vec_slice: the elements at positions start..end-1 as a new vector
vec_slice(objs, v, start, end) ==
    IF visit_obj(objs, v) # NoError
    THEN Fail(objs, visit_obj(objs, v))
    ELSE LET range == valid_range_from_start_end_bound(Index(start), Index(end),
                                                       Len(objs[Index(v)].val))
         IN  IF ~range.ok
             THEN Fail(objs, range.err)
             ELSE add_host_object(objs, HostObject("VecObject",
                     SubSeq(objs[Index(v)].val, range.val.start + 1, range.val.end)))

\* [T]::binary_search_by over the orderings cmps[i] of the elements against
\* the needle, on the window left..right (positions from 0): Ok(mid) at an
\* element that compares Equal, else Err(left)
RECURSIVE binary_search_by(_, _, _)
binary_search_by(cmps, left, right) ==
    IF left >= right
    THEN [found |-> FALSE, idx |-> left]
    ELSE LET mid == left + ((right - left) \div 2)
         IN  IF cmps[mid + 1] = 0
             THEN [found |-> TRUE, idx |-> mid]
             ELSE IF cmps[mid + 1] < 0
             THEN binary_search_by(cmps, mid + 1, right)
             ELSE binary_search_by(cmps, left, mid)

\* vec_binary_search comparing the needle with the probe, not the probe with
\* the needle
vec_binary_search_swapped(objs, v, x) ==
    IF ~check_val_integrity(objs, x)
    THEN Err(Error(ScErrorType.Value, ScErrorCode.InvalidInput))
    ELSE IF visit_obj(objs, v) # NoError
    THEN Err(visit_obj(objs, v))
    ELSE LET hv == objs[Index(v)].val
             res == binary_search_by([i \in 1..Len(hv) |-> compare(objs, x, hv[i])],
                                     0, Len(hv))
         IN  Ok(Val("U64", <<IF res.found THEN 1 ELSE 0, res.idx>>))

\* vec_binary_search: the u64 returned is given as its high word (1 when
\* found) and its low word (the index)
vec_binary_search(objs, v, x) ==
    IF ~check_val_integrity(objs, x)
    THEN Err(Error(ScErrorType.Value, ScErrorCode.InvalidInput))
    ELSE IF visit_obj(objs, v) # NoError
    THEN Err(visit_obj(objs, v))
    ELSE LET hv == objs[Index(v)].val
             res == binary_search_by([i \in 1..Len(hv) |-> compare(objs, hv[i], x)],
                                     0, Len(hv))
         IN  Ok(Val("U64", <<IF res.found THEN 1 ELSE 0, res.idx>>))

\* bytes_new_from_slice
bytes_new_from_slice(objs, mem) ==
    add_host_object(objs, HostObject("BytesObject", mem))

\* bytes_new
bytes_new(objs) ==
    add_host_object(objs, HostObject("BytesObject", <<>>))

\* bytes_put: u must fit a byte; the byte is set in a clone of the bytes
bytes_put(objs, b, iv, u) ==
    IF Index(u) > 255
    THEN Fail(objs, Error(ScErrorType.Value, ScErrorCode.InvalidInput))
    ELSE IF visit_obj(objs, b) # NoError
    THEN Fail(objs, visit_obj(objs, b))
    ELSE IF ~(Index(iv) + 1 \in 1..Len(objs[Index(b)].val))
    THEN Fail(objs, Error(ScErrorType.Object, ScErrorCode.IndexBounds))
    ELSE add_host_object(objs,
            HostObject("BytesObject", [objs[Index(b)].val EXCEPT ![Index(iv) + 1] = Index(u)]))

\* bytes_push
bytes_push(objs, b, u) ==
    IF Index(u) > 255
    THEN Fail(objs, Error(ScErrorType.Value, ScErrorCode.InvalidInput))
    ELSE IF visit_obj(objs, b) # NoError
    THEN Fail(objs, visit_obj(objs, b))
    ELSE add_host_object(objs,
            HostObject("BytesObject", Append(objs[Index(b)].val, Index(u))))

(***************************************************************************)
(* Spec: registries of at most MaxObjects objects built by the map, vector *)
(* and bytes host functions; hres holds the last call and its Result.      *)
(***************************************************************************)
\* the handles of type tag a guest can pass: every entry and one past the end
Handles(tag) ==
    {Handle(tag, i) : i \in 1..(Len(objects) + 1)}

\* the Vals a guest passes as keys
Keys ==
    {U32Val(1), SymbolSmall(<<1>>), Dangling(objects)}

\* the Vals a guest passes as values and elements
Vals ==
    {U32Val(1), U32Val(2), Dangling(objects)}

\* the positions a guest passes
Positions ==
    {U32Val(0), U32Val(1)}

\* the key slices and Vals a guest has in its memory: <<keys, vals>>
MemSlices ==
    {<<(<<>>), (<<>>)>>, <<(<<(<<0>>)>>), (<<U32Val(1)>>)>>,
     <<(<<(<<1>>), (<<2>>)>>), (<<U32Val(1), U32Val(2)>>)>>,
     <<(<<(<<2>>), (<<1>>)>>), (<<U32Val(1), U32Val(2)>>)>>,
     <<(<<(<<1>>), (<<1>>)>>), (<<U32Val(1), U32Val(2)>>)>>,
     <<(<<(<<1>>)>>), (<<Dangling(objects)>>)>>}

Init ==
    /\ objects = <<>>
    /\ context = <<>>
    /\ pend = NoError
    /\ ledger = FALSE
    /\ hres = NoCall
    /\ InitEnv

\* a host function that adds to the registry, called while the registry has
\* fewer than max entries
Grow(max, fn, args, out) ==
    /\ Len(objects) < max
    /\ Apply(fn, args, out)

\* a host function that reads the registry
Read(fn, args, res) ==
    Apply(fn, args, Out(res, objects))

\* the map functions
NextMap(max) ==
    \/ Grow(max, "map_new", <<>>, map_new(objects))
    \/ \E m \in Handles("MapObject"), k \in Keys, v \in Vals :
          Grow(max, "map_put", <<m, k, v>>, map_put(objects, m, k, v))
    \/ \E m \in Handles("MapObject"), k \in Keys :
          Read("map_get", <<m, k>>, map_get(objects, m, k))
    \/ \E m \in Handles("MapObject"), k \in Keys :
          Grow(max, "map_del", <<m, k>>, map_del(objects, m, k))
    \/ \E m \in Handles("MapObject") :
          Read("map_len", <<m>>, map_len(objects, m))
    \/ \E m \in Handles("MapObject"), k \in Keys :
          Read("map_has", <<m, k>>, map_has(objects, m, k))
    \/ \E m \in Handles("MapObject"), i \in Positions :
          Read("map_key_by_pos", <<m, i>>, map_key_by_pos(objects, m, i))
    \/ \E m \in Handles("MapObject"), i \in Positions :
          Read("map_val_by_pos", <<m, i>>, map_val_by_pos(objects, m, i))
    \/ \E m \in Handles("MapObject") :
          Grow(max, "map_keys", <<m>>, map_keys(objects, m))
    \/ \E m \in Handles("MapObject") :
          Grow(max, "map_values", <<m>>, map_values(objects, m))
    \/ \E kv \in MemSlices \cup {<<(<<(<<1>>)>>), (<<>>)>>} :
          Grow(max, "map_new_from_slices", kv, map_new_from_slices(objects, kv[1], kv[2]))
    \* under a budget that affords the call
    \/ \E kv \in MemSlices :
          \E h \in {[self EXCEPT !.budget = Budget(MaxBudget + 4, MaxBudget + 4)]} :
          \E r \in {map_new_from_linear_memory(h, kv[1], kv[2])} :
             Grow(max, "map_new_from_linear_memory", kv, Out(r.res, r.host.objects))

\* the vector and bytes functions
NextVec(max) ==
    \/ Grow(max, "vec_new", <<>>, vec_new(objects))
    \/ \E vals \in {<<U32Val(1)>>, <<VOID, U32Val(2)>>, <<U32Val(1), Dangling(objects)>>} :
          Grow(max, "vec_new_from_slice", vals, vec_new_from_slice(objects, vals))
    \/ \E v \in Handles("VecObject"), i \in Positions, x \in Vals :
          Grow(max, "vec_put", <<v, i, x>>, vec_put(objects, v, i, x))
    \/ \E v \in Handles("VecObject"), i \in Positions :
          Read("vec_get", <<v, i>>, vec_get(objects, v, i))
    \/ \E v \in Handles("VecObject"), i \in Positions :
          Grow(max, "vec_del", <<v, i>>, vec_del(objects, v, i))
    \/ \E v \in Handles("VecObject") :
          Read("vec_len", <<v>>, vec_len(objects, v))
    \/ \E v \in Handles("VecObject"), x \in Vals :
          Grow(max, "vec_push_back", <<v, x>>, vec_push_back(objects, v, x))
    \/ \E v \in Handles("VecObject") :
          Grow(max, "vec_pop_back", <<v>>, vec_pop_back(objects, v))
    \/ \E v \in Handles("VecObject") :
          Read("vec_back", <<v>>, vec_back(objects, v))
    \/ \E v \in Handles("VecObject"), i \in Positions, x \in Vals :
          Grow(max, "vec_insert", <<v, i, x>>, vec_insert(objects, v, i, x))
    \/ \E v1 \in Handles("VecObject"), v2 \in Handles("VecObject") :
          Grow(max, "vec_append", <<v1, v2>>, vec_append(objects, v1, v2))
    \/ \E v \in Handles("VecObject"), x \in Vals :
          Read("vec_binary_search", <<v, x>>, vec_binary_search(objects, v, x))

NextBytes(max) ==
    \/ Grow(max, "bytes_new", <<>>, bytes_new(objects))
    \/ Grow(max, "bytes_new_from_slice", <<>>, bytes_new_from_slice(objects, <<7>>))
    \/ \E b \in Handles("BytesObject"), iv \in Positions, u \in {U32Val(1), U32Val(256)} :
          Grow(max, "bytes_put", <<b, iv, u>>, bytes_put(objects, b, iv, u))
    \/ \E b \in Handles("BytesObject"), iv \in Positions :
          Read("bytes_get", <<b, iv>>, bytes_get(objects, b, iv))
    \/ \E b \in Handles("BytesObject"), u \in {U32Val(1), U32Val(256)} :
          Grow(max, "bytes_push", <<b, u>>, bytes_push(objects, b, u))

Next ==
    NextMap(MaxObjects) \/ NextVec(MaxObjects) \/ NextBytes(MaxObjects)

\* every function, small registries
Spec ==
    Init /\ [][Next]_vars

\* the map functions alone, larger registries
SpecMap ==
    Init /\ [][NextMap(MaxMapObjects)]_vars

\* the vector functions alone, larger registries
SpecVec ==
    Init /\ [][NextVec(MaxVecObjects)]_vars

\* the vector functions that take a position or a range
NextVecIndex ==
    \/ \E vals \in {<<U32Val(1)>>, <<VOID, U32Val(2)>>} :
          Grow(MaxVecObjects, "vec_new_from_slice", vals, vec_new_from_slice(objects, vals))
    \/ \E v \in Handles("VecObject"), i \in Positions, x \in Vals :
          Grow(MaxVecObjects, "vec_put", <<v, i, x>>, vec_put(objects, v, i, x))
    \/ \E v \in Handles("VecObject"), i \in Positions :
          Read("vec_get", <<v, i>>, vec_get(objects, v, i))
    \/ \E v \in Handles("VecObject"), i \in Positions :
          Grow(MaxVecObjects, "vec_del", <<v, i>>, vec_del(objects, v, i))
    \/ \E v \in Handles("VecObject"), i \in Positions, x \in Vals :
          Grow(MaxVecObjects, "vec_insert", <<v, i, x>>, vec_insert(objects, v, i, x))
    \/ \E v \in Handles("VecObject"), start \in Positions, end \in Positions \cup {U32Val(2)} :
          Grow(MaxVecObjects, "vec_slice", <<v, start, end>>,
               vec_slice(objects, v, start, end))

SpecVecIndex ==
    Init /\ [][NextVecIndex]_vars

(***************************************************************************)
(* Claims on the call path, checked under SpecCall.                        *)
(***************************************************************************)
\* the last host function was fn and reached call_n_internal
Dispatched(fn) ==
    hres.fn = fn /\ ~hres.early

ContextInvalidAction ==
    Error(ScErrorType.Context, ScErrorCode.InvalidAction)

\* C1: try_call maps the outcome of the callee: a value is returned
\* unchanged; a recoverable error of type Contract is returned as Ok with
\* that same error (type and code) as a Val; any other recoverable error is
\* returned as Ok with the one error value Context/InvalidAction.
C1_TryCallMapping ==
    Dispatched("try_call") =>
        /\ hres.callee.ok => hres.res = Ok(hres.callee.val)
        /\ (~hres.callee.ok /\ is_recoverable(hres.callee.err)
                /\ hres.callee.err.type = ScErrorType.Contract)
              => /\ hres.res.ok
                 /\ hres.res.val = Val("Error", <<hres.callee.err.type, hres.callee.err.code>>)
        /\ (~hres.callee.ok /\ is_recoverable(hres.callee.err)
                /\ hres.callee.err.type # ScErrorType.Contract)
              => /\ hres.res.ok
                 /\ hres.res.val = Val("Error", <<ScErrorType.Context, ScErrorCode.InvalidAction>>)

\* a callee frame that failed with Storage/MissingValue was popped and
\* try_call returned Ok(Error(Context/InvalidAction))
C1_Witness ==
    /\ Dispatched("try_call")
    /\ ~hres.reenter
    /\ hres.callee = Err(Error(ScErrorType.Storage, ScErrorCode.MissingValue))
    /\ hres.res = Ok(to_val(ContextInvalidAction))

\* C2: a non-recoverable callee error (budget exceeded, internal error) makes
\* try_call return Err with that same error, never Ok; call returns Err with
\* the callee's error for every callee failure.
C2_NonRecoverablePropagates ==
    /\ (Dispatched("try_call") /\ ~hres.callee.ok /\ ~is_recoverable(hres.callee.err))
          => (~hres.res.ok /\ hres.res.err = hres.callee.err)
    /\ (Dispatched("call") /\ ~hres.callee.ok)
          => (~hres.res.ok /\ hres.res.err = hres.callee.err)

\* a callee ran out of budget under try_call and the error came back as Err
C2_Witness ==
    /\ Dispatched("try_call")
    /\ hres.callee = Err(Error(ScErrorType.Budget, ScErrorCode.ExceededLimit))
    /\ hres.res = Err(Error(ScErrorType.Budget, ScErrorCode.ExceededLimit))

\* C3: reentry is prohibited on call and try_call: no contract id is on the
\* frame stack twice, and a call / try_call that reaches call_n_internal with
\* a target already on the stack pushes no frame and gets
\* Context/InvalidAction from it, which call returns as Err.
C3_ReentryProhibited ==
    /\ \A i, j \in 1..Len(context) : i # j => context[i].id # context[j].id
    /\ (hres.fn \in {"call", "try_call"} /\ hres.reenter)
          => /\ hres.callee = Err(ContextInvalidAction)
             /\ Len(context) = hres.depth
    /\ (hres.fn = "call" /\ hres.reenter) => hres.res = Err(ContextInvalidAction)

\* A called B and B called A (two frames deep): the call was refused
C3_Witness ==
    /\ hres.fn = "call"
    /\ hres.reenter
    /\ Len(context) = 2
    /\ hres.args[1] = Handle("AddressObject", context[1].id + 1)
    /\ hres.res = Err(ContextInvalidAction)

\* the error Val the guest handed to fail_with_error
Supplied ==
    Error(hres.args[1].body[1], hres.args[1].body[2])

\* C4 as stated: fail_with_error never returns Ok; a Contract error is raised
\* as given; an error of any other type is replaced by Context/UnexpectedType,
\* which is not the supplied error.
C4_Original ==
    hres.fn = "fail_with_error" =>
        /\ ~hres.res.ok
        /\ Supplied.type = ScErrorType.Contract => hres.res.err = Supplied
        /\ Supplied.type # ScErrorType.Contract
              => /\ hres.res.err = Error(ScErrorType.Context, ScErrorCode.UnexpectedType)
                 /\ hres.res.err # Supplied

\* C4 amended: fail_with_error never returns Ok; a Contract error is raised
\* as given; an error of any other type is replaced by Context/UnexpectedType,
\* so the only non-Contract error a guest can raise through fail_with_error
\* is Context/UnexpectedType (also when that is the error it supplied).
C4_FailWithError ==
    hres.fn = "fail_with_error" =>
        /\ ~hres.res.ok
        /\ Supplied.type = ScErrorType.Contract => hres.res.err = Supplied
        /\ Supplied.type # ScErrorType.Contract
              => hres.res.err = Error(ScErrorType.Context, ScErrorCode.UnexpectedType)
        /\ hres.res.err # Supplied
              => /\ Supplied.type # ScErrorType.Contract
                 /\ Supplied # Error(ScErrorType.Context, ScErrorCode.UnexpectedType)

\* the guest supplied Storage/MissingValue and got Context/UnexpectedType
C4_Witness ==
    /\ hres.fn = "fail_with_error"
    /\ Supplied = Error(ScErrorType.Storage, ScErrorCode.MissingValue)
    /\ hres.res = Err(Error(ScErrorType.Context, ScErrorCode.UnexpectedType))

(***************************************************************************)
(* Claims on obj_cmp, checked under SpecCmp.                               *)
(***************************************************************************)
\* obj_cmp has just returned for two Vals that pass check_val_integrity
Compared ==
    /\ hres.fn = "obj_cmp"
    /\ check_val_integrity(objects, hres.args[1])
    /\ check_val_integrity(objects, hres.args[2])

\* the three results a comparison can have
Orderings ==
    {I64(0 - 1), I64(0), I64(1)}

\* equality by value of two Vals that pass check_val_integrity
RECURSIVE ValEq(_, _, _)
ValEq(objs, a, b) ==
    IF ~IsObject(a) /\ ~IsObject(b) THEN a = b
    ELSE IF IsObject(a) /\ IsObject(b)
    THEN LET x == objs[Index(a)]
             y == objs[Index(b)]
         IN  /\ x.type = y.type
             /\ Len(x.val) = Len(y.val)
             /\ IF x.type = "VecObject"
                THEN \A i \in 1..Len(x.val) : ValEq(objs, x.val[i], y.val[i])
                ELSE IF x.type = "MapObject"
                THEN \A i \in 1..Len(x.val) :
                        /\ ValEq(objs, x.val[i][1], y.val[i][1])
                        /\ ValEq(objs, x.val[i][2], y.val[i][2])
                ELSE x.val = y.val
    ELSE LET ho == IF IsObject(a) THEN objs[Index(a)] ELSE objs[Index(b)]
             rv == IF IsObject(a) THEN b ELSE a
         IN  \/ ho.type = "U64Object" /\ rv.tag = "U64Small" /\ ho.val = rv.body
             \/ ho.type = "SymbolObject" /\ rv.tag = "SymbolSmall" /\ ho.val = rv.body

C6_OrderLaws ==
    Compared /\ hres.res.ok =>
        LET a == hres.args[1]
            b == hres.args[2]
            ab == hres.res.val.body[1]
        IN  /\ obj_cmp(objects, b, a) = Ok(I64(0 - ab))
            /\ ValEq(objects, a, b) => ab = 0
            /\ \A c \in CmpArgs :
                  LET bc == obj_cmp(objects, b, c)
                      ac == obj_cmp(objects, a, c)
                  IN  bc.ok /\ ac.ok /\ ab <= 0 /\ bc.val.body[1] <= 0
                          => ac.val.body[1] <= 0

\* the mirrored branch has ordered a small u64 before a greater u64 object
C6_Witness ==
    /\ Compared
    /\ hres.args[1] = U64Small(1)
    /\ IsObject(hres.args[2])
    /\ objects[Index(hres.args[2])] = HostObject("U64Object", <<2>>)
    /\ hres.res = Ok(I64(0 - 1))

(***************************************************************************)
(* Claims on maps (SpecMap), vectors (SpecVec) and the registry (Spec).    *)
(***************************************************************************)
\* the host function fn has just returned Ok
Returned(fn) ==
    hres.fn = fn /\ hres.res.ok

\* C7: after m' = map_put(m, k, v): map_has(m', k) is true, map_get(m', k)
\* is v, map_len(m') is map_len(m) + 1 if k was absent from m and map_len(m)
\* if it was present, and every other key maps in m' to what it maps to in m.
C7_MapPutLaw ==
    Returned("map_put") =>
        LET m == hres.args[1]
            k == hres.args[2]
            v == hres.args[3]
            mnew == hres.res.val
            grown == IF map_has(objects, m, k) = Ok(BoolVal(TRUE)) THEN 0 ELSE 1
        IN  /\ map_has(objects, mnew, k) = Ok(BoolVal(TRUE))
            /\ map_get(objects, mnew, k) = Ok(v)
            /\ map_len(objects, mnew) = Ok(U32Val(Index(map_len(objects, m).val) + grown))
            /\ \A k2 \in Keys \cup {SymbolSmall(<<2>>)} :
                  check_val_integrity(objects, k2) /\ compare(objects, k2, k) # 0
                      => map_get(objects, mnew, k2) = map_get(objects, m, k2)

\* map_put has replaced the value of a key of a map that has another key too
C7_Witness ==
    /\ Returned("map_put")
    /\ map_get(objects, hres.args[1], hres.args[2]).ok
    /\ map_get(objects, hres.args[1], hres.args[2]).val # hres.args[3]
    /\ map_len(objects, hres.res.val) = Ok(U32Val(2))

\* C8: every map object in the registry has its keys strictly ascending in
\* the host order (so unique); map_key_by_pos and map_val_by_pos return the
\* i-th key and the value of that key, and map_keys and map_values return
\* the keys and the values position by position in that order.
C8_MapSortedAligned ==
    \A j \in 1..Len(objects) :
        objects[j].type = "MapObject" =>
            LET m == Handle("MapObject", j)
                n == Index(map_len(objects, m).val)
                key(i) == map_key_by_pos(objects, m, U32Val(i - 1))
                val(i) == map_val_by_pos(objects, m, U32Val(i - 1))
                ks == map_keys(objects, m)
                vs == map_values(objects, m)
            IN  /\ \A i \in 1..n : key(i).ok /\ val(i).ok
                /\ \A i \in 1..(n - 1) : compare(objects, key(i).val, key(i + 1).val) < 0
                /\ \A i \in 1..n : map_get(objects, m, key(i).val) = val(i)
                /\ ks.res.ok /\ vs.res.ok
                /\ ks.objects[Index(ks.res.val)].val = [i \in 1..n |-> key(i).val]
                /\ vs.objects[Index(vs.res.val)].val = [i \in 1..n |-> val(i).val]

\* map_put has put a key before the key the map had
C8_Witness ==
    /\ Returned("map_put")
    /\ hres.args[2] = U32Val(1)
    /\ hres.args[3] = U32Val(2)
    /\ objects[Index(hres.res.val)].val
          = <<(<<U32Val(1), U32Val(2)>>), (<<SymbolSmall(<<1>>), U32Val(1)>>)>>

\* the host functions that return a handle to a new object
Builders ==
    {"map_new", "map_put", "map_del", "map_keys", "map_values",
     "map_new_from_slices", "map_new_from_linear_memory",
     "vec_new", "vec_new_from_slice", "vec_put", "vec_del", "vec_push_back", "vec_pop_back",
     "vec_insert", "vec_append", "bytes_new", "bytes_new_from_slice",
     "bytes_put", "bytes_push"}

\* C9: no host function call shrinks the registry or rewrites an entry of
\* it, so what a handle reads stays the same; map_put, map_del, vec_put,
\* vec_push_back, vec_pop_back, vec_insert, vec_del, vec_append, bytes_put
\* and bytes_push return a handle to a new entry, not one of their inputs.
C9_AppendOnly ==
    [][/\ Len(objects') >= Len(objects)
       /\ \A i \in 1..Len(objects) : objects'[i] = objects[i]
       /\ (hres'.fn \in Builders /\ hres'.res.ok)
             => /\ IsObject(hres'.res.val)
                /\ Index(hres'.res.val) > Len(objects)
                /\ Index(hres'.res.val) <= Len(objects')]_vars

\* vec_put has returned a new vector and its input still reads as before
C9_Witness ==
    /\ Returned("vec_put")
    /\ hres.res.val # hres.args[1]
    /\ vec_get(objects, hres.args[1], hres.args[2]) = Ok(U32Val(1))
    /\ vec_get(objects, hres.res.val, hres.args[2]) = Ok(U32Val(2))

\* C10: after w = vec_push_back(v, x): vec_len(w) is vec_len(v) + 1,
\* vec_back(w) is x, and vec_pop_back(w) has the length and, position by
\* position, the elements of v.
C10_VecPushPopLaw ==
    Returned("vec_push_back") =>
        LET v == hres.args[1]
            x == hres.args[2]
            w == hres.res.val
            n == Index(vec_len(objects, v).val)
            p == vec_pop_back(objects, w)
        IN  /\ vec_len(objects, w) = Ok(U32Val(n + 1))
            /\ vec_back(objects, w) = Ok(x)
            /\ p.res.ok
            /\ vec_len(p.objects, p.res.val) = Ok(U32Val(n))
            /\ \A i \in 0..(n - 1) :
                  vec_get(p.objects, p.res.val, U32Val(i)) = vec_get(objects, v, U32Val(i))

\* an element has been pushed onto a vector that had one
C10_Witness ==
    /\ Returned("vec_push_back")
    /\ vec_len(objects, hres.args[1]) = Ok(U32Val(1))
    /\ vec_back(objects, hres.args[1]) # Ok(hres.args[2])

\* C11: vec_binary_search(v, x) on a vector sorted ascending in the host
\* order: found at i means v[i] compares equal to x; not found at j means
\* 0 <= j <= len(v), every element before j is less than x and every element
\* from j on is greater; it reports found iff some element equals x.
C11_BinarySearch ==
    Returned("vec_binary_search") =>
        LET hv == objects[Index(hres.args[1])].val
            x == hres.args[2]
            found == hres.res.val.body[1] = 1
            idx == hres.res.val.body[2]
        IN  (\A i \in 1..Len(hv), j \in 1..Len(hv) :
                 i < j => compare(objects, hv[i], hv[j]) <= 0)
            => /\ found => idx < Len(hv) /\ compare(objects, hv[idx + 1], x) = 0
               /\ ~found => /\ idx \in 0..Len(hv)
                            /\ \A i \in 1..idx : compare(objects, hv[i], x) < 0
                            /\ \A i \in (idx + 1)..Len(hv) : compare(objects, hv[i], x) > 0
               /\ found <=> \E i \in 1..Len(hv) : compare(objects, hv[i], x) = 0

\* a needle absent from a sorted vector is placed between two elements
C11_Witness ==
    /\ Returned("vec_binary_search")
    /\ objects[Index(hres.args[1])].val = <<VOID, U32Val(2)>>
    /\ hres.args[2] = U32Val(1)
    /\ hres.res = Ok(Val("U64", <<0, 1>>))

(***************************************************************************)
(* Storage (4.5): the ledger entries and the instance storage.             *)
(***************************************************************************)
\* the entries of a ledger key [key, durability] in the storage map: none or one
entries(st, lk) ==
    {e \in st.map : e.key = lk.key /\ e.durability = lk.durability}

\* Storage::has / get / put / del / bump start alike: access to a key outside
\* the footprint fails, and the access is charged
storage_access(h, lk) ==
    IF lk \notin h.storage.footprint
    THEN Ret(Err(Error(ScErrorType.Storage, ScErrorCode.ExceededLimit)), h)
    ELSE charge(h, 1)

\* Storage::put: an upsert; a new entry starts with expiration 1, an entry
\* that replaces one keeps its expiration
storage_put(h, lk, sv) ==
    LET a == storage_access(h, lk)
        old == entries(h.storage, lk)
        exp == IF old = {} THEN 1 ELSE (CHOOSE e \in old : TRUE).expiration
        new == [key |-> lk.key, durability |-> lk.durability, val |-> sv, expiration |-> exp]
    IN  IF ~a.res.ok
        THEN a
        ELSE Ret(Ok(VOID), [a.host EXCEPT !.storage.map = (@ \ old) \cup {new}])

\* storage_key_from_rawval / contract_data_key_from_rawval: the ContractData
\* ledger key of the running contract, the key converted under a charge
storage_key_from_rawval(h, k, t) ==
    [res |-> charge(h, 1).res, host |-> charge(h, 1).host,
     key |-> [key |-> from_host_val(h.objects, k), durability |-> t]]

\* put_contract_data_into_ledger: convert key and value, then Storage::put
put_contract_data_into_ledger(h, k, v, t) ==
    LET key == storage_key_from_rawval(h, k, t)
    IN  IF ~key.res.ok
        THEN key
        ELSE IF ~charge(key.host, 1).res.ok
        THEN charge(key.host, 1)
        ELSE storage_put(charge(key.host, 1).host, key.key, from_host_val(h.objects, v))

\* put_contract_data writing every ledger entry as a persistent one
put_contract_data_persistent(h, k, v, t) ==
    IF ~check_val_integrity(h.objects, k) \/ ~check_val_integrity(h.objects, v)
    THEN Ret(Err(Error(ScErrorType.Value, ScErrorCode.InvalidInput)), h)
    ELSE IF t \in {StorageType.Temporary, StorageType.Persistent}
    THEN put_contract_data_into_ledger(h, k, v, StorageType.Persistent)
    ELSE IF ~charge(h, 1).res.ok
    THEN charge(h, 1)
    ELSE Ret(Ok(VOID), [charge(h, 1).host EXCEPT
                            !.instance = HostMap_insert(h.objects, @, k, v)])

\* put_contract_data
put_contract_data(h, k, v, t) ==
    IF ~check_val_integrity(h.objects, k) \/ ~check_val_integrity(h.objects, v)
    THEN Ret(Err(Error(ScErrorType.Value, ScErrorCode.InvalidInput)), h)
    ELSE IF t \in {StorageType.Temporary, StorageType.Persistent}
    THEN put_contract_data_into_ledger(h, k, v, t)
    ELSE IF ~charge(h, 1).res.ok
    THEN charge(h, 1)
    ELSE Ret(Ok(VOID), [charge(h, 1).host EXCEPT
                            !.instance = HostMap_insert(h.objects, @, k, v)])

\* has_contract_data
has_contract_data(h, k, t) ==
    IF ~check_val_integrity(h.objects, k)
    THEN Ret(Err(Error(ScErrorType.Value, ScErrorCode.InvalidInput)), h)
    ELSE IF t \in {StorageType.Temporary, StorageType.Persistent}
    THEN LET key == storage_key_from_rawval(h, k, t)
             a == storage_access(key.host, key.key)
         IN  IF ~key.res.ok
             THEN key
             ELSE IF ~a.res.ok
             THEN a
             ELSE Ret(Ok(BoolVal(entries(h.storage, key.key) # {})), a.host)
    ELSE IF ~charge(h, 1).res.ok
    THEN charge(h, 1)
    ELSE Ret(Ok(BoolVal(MapFind(h.objects, h.instance, k) # 0)), charge(h, 1).host)

\* get_contract_data
get_contract_data(h, k, t) ==
    IF ~check_val_integrity(h.objects, k)
    THEN Ret(Err(Error(ScErrorType.Value, ScErrorCode.InvalidInput)), h)
    ELSE IF t \in {StorageType.Temporary, StorageType.Persistent}
    THEN LET key == storage_key_from_rawval(h, k, t)
             a == storage_access(key.host, key.key)
         IN  IF ~key.res.ok
             THEN key
             ELSE IF ~a.res.ok
             THEN a
             ELSE IF entries(h.storage, key.key) = {}
             THEN Ret(Err(Error(ScErrorType.Storage, ScErrorCode.MissingValue)), a.host)
             ELSE to_host_val(a.host, (CHOOSE e \in entries(h.storage, key.key) : TRUE).val)
    ELSE IF ~charge(h, 1).res.ok
    THEN charge(h, 1)
    ELSE IF MapFind(h.objects, h.instance, k) = 0
    THEN Ret(Err(Error(ScErrorType.Storage, ScErrorCode.MissingValue)), charge(h, 1).host)
    ELSE Ret(Ok(h.instance[MapFind(h.objects, h.instance, k)][2]), charge(h, 1).host)

\* del_contract_data
del_contract_data(h, k, t) ==
    IF ~check_val_integrity(h.objects, k)
    THEN Ret(Err(Error(ScErrorType.Value, ScErrorCode.InvalidInput)), h)
    ELSE IF t \in {StorageType.Temporary, StorageType.Persistent}
    THEN LET key == storage_key_from_rawval(h, k, t)
             a == storage_access(key.host, key.key)
         IN  IF ~key.res.ok
             THEN key
             ELSE IF ~a.res.ok
             THEN a
             ELSE Ret(Ok(VOID), [a.host EXCEPT !.storage.map = @ \ entries(h.storage, key.key)])
    ELSE IF ~charge(h, 1).res.ok
    THEN charge(h, 1)
    ELSE IF MapFind(h.objects, h.instance, k) # 0
    THEN Ret(Ok(VOID), [charge(h, 1).host EXCEPT
                            !.instance = HostMap_remove(h.objects, @, k)])
    ELSE Ret(Ok(VOID), charge(h, 1).host)

\* Storage::bump: an entry whose expiration is below the low watermark gets
\* the high watermark; the watermarks must be in order
storage_bump(h, lk, low, high) ==
    LET a == storage_access(h, lk)
        old == entries(h.storage, lk)
        e == CHOOSE x \in old : TRUE
    IN  IF ~a.res.ok
        THEN a
        ELSE IF old = {}
        THEN Ret(Err(Error(ScErrorType.Storage, ScErrorCode.MissingValue)), a.host)
        ELSE IF low > high
        THEN Ret(Err(Error(ScErrorType.Storage, ScErrorCode.InvalidInput)), a.host)
        ELSE IF e.expiration < low
        THEN Ret(Ok(VOID), [a.host EXCEPT
                !.storage.map = (@ \ old) \cup {[e EXCEPT !.expiration = high]}])
        ELSE Ret(Ok(VOID), a.host)

\* bump_contract_data letting the instance storage type through
bump_contract_data_any_type(h, k, t, low, high) ==
    LET key == storage_key_from_rawval(h, k, t)
    IN  IF ~check_val_integrity(h.objects, k)
        THEN Ret(Err(Error(ScErrorType.Value, ScErrorCode.InvalidInput)), h)
        ELSE IF ~key.res.ok
        THEN key
        ELSE storage_bump(key.host, key.key, low, high)

\* bump_contract_data
bump_contract_data(h, k, t, low, high) ==
    LET key == storage_key_from_rawval(h, k, t)
    IN  IF ~check_val_integrity(h.objects, k)
        THEN Ret(Err(Error(ScErrorType.Value, ScErrorCode.InvalidInput)), h)
        ELSE IF t = StorageType.Instance
        THEN Ret(Err(Error(ScErrorType.Storage, ScErrorCode.InvalidAction)), h)
        ELSE IF ~key.res.ok
        THEN key
        ELSE storage_bump(key.host, key.key, low, high)

\* contract_instance_ledger_key: the ledger key of the instance entry of
\* contract id; no Val converts to its ScVal
contract_instance_ledger_key(id) ==
    [key |-> ScVal("LedgerKeyContractInstance", <<id>>), durability |-> StorageType.Persistent]

\* bump_contract_instance_and_code_from_contract_id: bump the instance entry,
\* then the entry of the code it names
bump_contract_instance_and_code_from_contract_id(h, id, low, high) ==
    LET key == contract_instance_ledger_key(id)
        r == storage_bump(h, key, low, high)
    IN  IF ~r.res.ok
        THEN r
        ELSE storage_bump(r.host,
                [key |-> ScVal("ContractCode", (CHOOSE e \in entries(h.storage, key) : TRUE).val.val),
                 durability |-> StorageType.Persistent], low, high)

\* bump_current_contract_instance_and_code
bump_current_contract_instance_and_code(h, low, high) ==
    bump_contract_instance_and_code_from_contract_id(h, Top(h.context).id, low, high)

\* bump_contract_instance_and_code
bump_contract_instance_and_code(h, contract, low, high) ==
    IF contract_id_from_address(h.objects, contract).err # NoError
    THEN Ret(Err(contract_id_from_address(h.objects, contract).err), h)
    ELSE bump_contract_instance_and_code_from_contract_id(
            h, contract_id_from_address(h.objects, contract).id, low, high)

(***************************************************************************)
(* SpecStore: a contract's calls to the storage host functions on a host   *)
(* whose budget affords MaxBudget charges, any number of them spent before *)
(* the contract's first call.                                              *)
(***************************************************************************)
\* the keys, values and storage types the contract passes
StoreKeys ==
    {U32Val(1), SymbolSmall(<<1>>), Dangling(objects)}

StoreVals ==
    {U32Val(7), Handle("U64Object", 1), Dangling(objects)}

StorageTypes ==
    {StorageType.Temporary, StorageType.Persistent, StorageType.Instance}

\* the watermark pairs <<low, high>> the contract passes
Watermarks ==
    {<<2, 3>>, <<3, 2>>}

\* contract 1 runs, invoked by the embedder. The registry holds a u64 and
\* the address of the contract. The storage holds the instance entry of the
\* contract and the entries of the code 1 it runs and of the code 2; the
\* footprint of the transaction has them, the persistent entries of both
\* keys and the temporary entry of one
InitStore ==
    /\ objects = <<HostObject("U64Object", <<5>>), AddressContract(1)>>
    /\ context = <<Frame(1, "invoke")>>
    /\ pend = NoError
    /\ ledger = FALSE
    /\ hres = NoCall
    /\ storage =
          LET code(id) == [key |-> ScVal("ContractCode", <<id>>), durability |-> StorageType.Persistent,
                           val |-> ScVal("Wasm", <<id>>), expiration |-> 1]
              map == {[key |-> ScVal("LedgerKeyContractInstance", <<1>>),
                       durability |-> StorageType.Persistent,
                       val |-> ScVal("ContractInstance", <<1>>), expiration |-> 1],
                      code(1), code(2)}
          IN  [footprint |-> {[key |-> e.key, durability |-> e.durability] : e \in map} \cup
                             {[key |-> ScVal("U32", <<1>>), durability |-> StorageType.Persistent],
                              [key |-> ScVal("Symbol", <<1>>), durability |-> StorageType.Persistent],
                              [key |-> ScVal("U32", <<1>>), durability |-> StorageType.Temporary]},
               map |-> map]
    /\ instance = <<>>
    /\ events = <<>>
    /\ budget \in {[Budget(MaxBudget, MaxBudget) EXCEPT !.cpu = c, !.mem = c] : c \in 0..MaxBudget}
    /\ diagnostic_level = "None"
    /\ refs = 1
    /\ memory = [slices |-> <<>>, vals |-> <<>>]
    /\ authorization_manager = new_enforcing_without_authorizations
    /\ borrows = NoBorrows
    /\ testutils = NoTestutils

\* a metered host function called by the contract, which writes to the
\* guest's memory if it says so; exceeding the budget is not recoverable, so
\* no contract runs on once a charge has failed
Step(fn, args, out) ==
    /\ budget.cpu <= budget.cpu_limit /\ budget.mem <= budget.mem_limit
    /\ \E r \in {out} :
          /\ hres' = HPlain(fn, args, 0, r.res)
          /\ objects' = r.host.objects
          /\ storage' = r.host.storage
          /\ instance' = r.host.instance
          /\ events' = r.host.events
          /\ budget' = r.host.budget
          /\ memory' = IF "memory" \in DOMAIN r THEN r.memory ELSE memory
    /\ UNCHANGED <<context, pend, ledger, diagnostic_level, refs, authorization_manager,
                   borrows, testutils>>

NextStore ==
    \/ \E k \in StoreKeys, v \in StoreVals, t \in StorageTypes :
          Step("put_contract_data", <<k, v, U32Val(t)>>, put_contract_data(self, k, v, t))
    \/ \E k \in StoreKeys, t \in StorageTypes :
          Step("has_contract_data", <<k, U32Val(t)>>, has_contract_data(self, k, t))
    \/ \E k \in StoreKeys, t \in StorageTypes :
          Step("get_contract_data", <<k, U32Val(t)>>, get_contract_data(self, k, t))
    \/ \E k \in StoreKeys, t \in StorageTypes :
          Step("del_contract_data", <<k, U32Val(t)>>, del_contract_data(self, k, t))
    \/ \E k \in StoreKeys, t \in StorageTypes, w \in Watermarks :
          Step("bump_contract_data", <<k, U32Val(t), U32Val(w[1]), U32Val(w[2])>>,
               bump_contract_data(self, k, t, w[1], w[2]))
    \/ \E w \in Watermarks :
          Step("bump_current_contract_instance_and_code", <<U32Val(w[1]), U32Val(w[2])>>,
               bump_current_contract_instance_and_code(self, w[1], w[2]))
    \/ \E a \in {Handle("AddressObject", 2), Handle("AddressObject", 1)}, w \in Watermarks :
          Step("bump_contract_instance_and_code", <<a, U32Val(w[1]), U32Val(w[2])>>,
               bump_contract_instance_and_code(self, a, w[1], w[2]))

SpecStore ==
    InitStore /\ [][NextStore]_vars

(***************************************************************************)
(* Claims about storage.                                                   *)
(***************************************************************************)
\* the host h with a budget that affords any one call
Afforded(h) ==
    [h EXCEPT !.budget = Budget(MaxBudget + 1, MaxBudget + 1)]

\* the results of has_contract_data and get_contract_data for every valid
\* key and storage type but (k, t)
OtherData(h, k, t) ==
    [k2 \in {x \in StoreKeys : check_val_integrity(h.objects, x)}, t2 \in StorageTypes |->
        IF compare(h.objects, k2, k) = 0 /\ t2 = t
        THEN <<>>
        ELSE <<has_contract_data(Afforded(h), k2, t2).res,
               get_contract_data(Afforded(h), k2, t2).res>>]

\* C12: after a put_contract_data(k, v, t) that succeeds, has_contract_data(k, t)
\* is true and get_contract_data(k, t) is a Val equal to v in the host order
\* (also when the put overwrites an entry); after a del_contract_data(k, t)
\* that succeeds, has_contract_data(k, t) is false and get_contract_data(k, t)
\* fails with Storage/MissingValue; in both cases has and get of every other
\* key and storage type answer as before.
C12_StorageRoundTrip ==
    [][/\ (hres'.fn = "put_contract_data" /\ hres'.res.ok) =>
            LET k == hres'.args[1]
                v == hres'.args[2]
                t == hres'.args[3].body[1]
                got == get_contract_data(Afforded(self'), k, t)
            IN  /\ has_contract_data(Afforded(self'), k, t).res = Ok(BoolVal(TRUE))
                /\ got.res.ok
                /\ compare(got.host.objects, got.res.val, v) = 0
                /\ OtherData(self', k, t) = OtherData(self, k, t)
       /\ (hres'.fn = "del_contract_data" /\ hres'.res.ok) =>
            LET k == hres'.args[1]
                t == hres'.args[2].body[1]
            IN  /\ has_contract_data(Afforded(self'), k, t).res = Ok(BoolVal(FALSE))
                /\ get_contract_data(Afforded(self'), k, t).res =
                        Err(Error(ScErrorType.Storage, ScErrorCode.MissingValue))
                /\ OtherData(self', k, t) = OtherData(self, k, t)]_vars

\* a get_contract_data answering the small u64 5 for a persistent key: the
\* put before it stored the u64 object of the registry, which holds 5
C12_Witness ==
    hres = HPlain("get_contract_data", <<U32Val(1), U32Val(StorageType.Persistent)>>, 0,
                  Ok(U64Small(5)))

\* C13: bump_contract_data with StorageType::Instance fails for every key and
\* every pair of watermarks, with Storage/InvalidAction when the key passes
\* check_val_integrity, and leaves the ledger storage and the instance storage
\* as they were; the expiration of the instance entry changes only in calls
\* of bump_current_contract_instance_and_code and
\* bump_contract_instance_and_code.
C13_InstanceBump ==
    [][LET exp(st) == {e.expiration : e \in entries(st, contract_instance_ledger_key(1))}
       IN  /\ (hres'.fn = "bump_contract_data" /\ hres'.args[2] = U32Val(StorageType.Instance)) =>
                /\ ~hres'.res.ok
                /\ check_val_integrity(objects, hres'.args[1]) =>
                        hres'.res.err = Error(ScErrorType.Storage, ScErrorCode.InvalidAction)
                /\ storage' = storage
                /\ instance' = instance
           /\ exp(storage') # exp(storage) =>
                hres'.fn \in {"bump_current_contract_instance_and_code",
                              "bump_contract_instance_and_code"}]_vars

\* a bump_contract_data of an instance key refused while the instance storage
\* holds an entry and the instance entry has been bumped to expiration 3
C13_Witness ==
    /\ hres = HPlain("bump_contract_data", <<U32Val(1), U32Val(StorageType.Instance), U32Val(2), U32Val(3)>>,
                     0, Err(Error(ScErrorType.Storage, ScErrorCode.InvalidAction)))
    /\ instance # <<>>
    /\ \E e \in storage.map : e.key.kind = "LedgerKeyContractInstance" /\ e.expiration = 3

(***************************************************************************)
(* Host functions over the guest's linear memory. The memory holds byte    *)
(* slices (symbols, messages) and Val words, each region addressed from 0; *)
(* an access past the end of a region fails with WasmVm/IndexBounds. The   *)
(* Val words are held as the host resolves them (relative_to_absolute).    *)
(***************************************************************************)
\* the characters of a symbol Val
symbol_str(objs, sym) ==
    IF sym.tag = "SymbolSmall" THEN sym.body ELSE objs[Index(sym)].val

\* map_unpack_to_slice: the slices must be as long as the map, the keys must
\* match in order; the values are copied to vals
map_unpack_to_slice(h, map, keys, vals) ==
    LET hm == h.objects[Index(map)].val
        c == charge(h, 1)
    IN  IF Len(keys) # Len(vals)
        THEN [res |-> Err(Error(ScErrorType.Object, ScErrorCode.UnexpectedSize)), host |-> h, vals |-> vals]
        ELSE IF visit_obj(h.objects, map) # NoError
        THEN [res |-> Err(visit_obj(h.objects, map)), host |-> h, vals |-> vals]
        ELSE IF Len(hm) # Len(vals)
        THEN [res |-> Err(Error(ScErrorType.Object, ScErrorCode.UnexpectedSize)), host |-> h, vals |-> vals]
        ELSE IF \E i \in 1..Len(keys) : hm[i][1].tag \notin {"SymbolSmall", "SymbolObject"}
        THEN [res |-> Err(Error(ScErrorType.Value, ScErrorCode.UnexpectedType)), host |-> h, vals |-> vals]
        ELSE IF \E i \in 1..Len(keys) : symbol_str(h.objects, hm[i][1]) # keys[i]
        THEN [res |-> Err(Error(ScErrorType.Value, ScErrorCode.InvalidInput)), host |-> h, vals |-> vals]
        ELSE IF ~c.res.ok
        THEN [res |-> c.res, host |-> c.host, vals |-> vals]
        ELSE [res |-> Ok(VOID), host |-> c.host, vals |-> [i \in 1..Len(hm) |-> hm[i][2]]]

\* map_unpack_to_linear_memory. Step 1 scans the len key slices at keys_pos,
\* charging each, and checks slice n against the key of entry n of the map;
\* step 2 writes the values of all entries of the map at vals_pos
map_unpack_to_linear_memory(h, mem, map, keys_pos, vals_pos, len) ==
    LET hm == h.objects[Index(map)].val
        check(n) ==
            IF n + 1 > Len(hm)
            THEN Error(ScErrorType.Object, ScErrorCode.IndexBounds)
            ELSE IF hm[n + 1][1].tag \notin {"SymbolSmall", "SymbolObject"}
            THEN Error(ScErrorType.Value, ScErrorCode.UnexpectedType)
            ELSE IF symbol_str(h.objects, hm[n + 1][1]) # mem.slices[keys_pos + n + 1]
            THEN Error(ScErrorType.Value, ScErrorCode.InvalidInput)
            ELSE NoError
        bad == {n \in 0..(len - 1) : check(n) # NoError}
        first == IF bad = {} THEN len ELSE CHOOSE n \in bad : \A m \in bad : n <= m
        scan == charge(h, IF first < len THEN first + 1 ELSE len)
        write == charge(scan.host, 1)
    IN  IF visit_obj(h.objects, map) # NoError
        THEN [res |-> Err(visit_obj(h.objects, map)), host |-> h, memory |-> mem]
        ELSE IF keys_pos + len > Len(mem.slices)
        THEN [res |-> Err(Error(ScErrorType.WasmVm, ScErrorCode.IndexBounds)), host |-> h, memory |-> mem]
        ELSE IF ~scan.res.ok
        THEN [res |-> scan.res, host |-> scan.host, memory |-> mem]
        ELSE IF first < len
        THEN [res |-> Err(check(first)), host |-> scan.host, memory |-> mem]
        ELSE IF ~write.res.ok
        THEN [res |-> write.res, host |-> write.host, memory |-> mem]
        ELSE IF vals_pos + Len(hm) > Len(mem.vals)
        THEN [res |-> Err(Error(ScErrorType.WasmVm, ScErrorCode.IndexBounds)),
              host |-> write.host, memory |-> mem]
        ELSE [res |-> Ok(VOID), host |-> write.host,
              memory |-> [mem EXCEPT !.vals =
                            [i \in 1..Len(mem.vals) |->
                                IF i - vals_pos \in 1..Len(hm) THEN hm[i - vals_pos][2] ELSE mem.vals[i]]]]

\* vec_new_from_linear_memory storing the Vals as they are read
vec_new_from_linear_memory_unchecked(h, vals) ==
    LET c1 == charge(h, 2)
        c2 == charge(c1.host, 1)
        out == add_host_object(c2.host.objects, HostObject("VecObject", vals))
    IN  IF ~c1.res.ok
        THEN c1
        ELSE IF ~c2.res.ok
        THEN c2
        ELSE Ret(out.res, [c2.host EXCEPT !.objects = out.objects])

\* vec_new_from_linear_memory: vals are the len Vals found at vals_pos
vec_new_from_linear_memory(h, vals) ==
    LET c1 == charge(h, 2)
        c2 == charge(c1.host, 1)
        out == add_host_object(c2.host.objects, HostObject("VecObject", vals))
    IN  IF ~c1.res.ok
        THEN c1
        ELSE IF \E i \in 1..Len(vals) : ~check_val_integrity(h.objects, vals[i])
        THEN Ret(Err(Error(ScErrorType.Value, ScErrorCode.InvalidInput)), c1.host)
        ELSE IF ~c2.res.ok
        THEN c2
        ELSE Ret(out.res, [c2.host EXCEPT !.objects = out.objects])

\* vec_unpack_to_slice: the slice must be as long as the vector; the
\* elements are copied to vals
vec_unpack_to_slice(h, vec, vals) ==
    LET hv == h.objects[Index(vec)].val
        c == charge(h, 1)
    IN  IF visit_obj(h.objects, vec) # NoError
        THEN [res |-> Err(visit_obj(h.objects, vec)), host |-> h, vals |-> vals]
        ELSE IF Len(hv) # Len(vals)
        THEN [res |-> Err(Error(ScErrorType.Object, ScErrorCode.UnexpectedSize)), host |-> h, vals |-> vals]
        ELSE IF ~c.res.ok
        THEN [res |-> c.res, host |-> c.host, vals |-> vals]
        ELSE [res |-> Ok(VOID), host |-> c.host, vals |-> hv]

\* vec_unpack_to_linear_memory: the len decoded from the arguments is not
\* used; all the elements of the vector are written at vals_pos, under one
\* charge, and the write fails when they do not fit the memory
vec_unpack_to_linear_memory(h, mem, vec, vals_pos, len) ==
    LET hv == h.objects[Index(vec)].val
        write == charge(h, 1)
    IN  IF visit_obj(h.objects, vec) # NoError
        THEN [res |-> Err(visit_obj(h.objects, vec)), host |-> h, memory |-> mem]
        ELSE IF ~write.res.ok
        THEN [res |-> write.res, host |-> write.host, memory |-> mem]
        ELSE IF vals_pos + Len(hv) > Len(mem.vals)
        THEN [res |-> Err(Error(ScErrorType.WasmVm, ScErrorCode.IndexBounds)),
              host |-> write.host, memory |-> mem]
        ELSE [res |-> Ok(VOID), host |-> write.host,
              memory |-> [mem EXCEPT !.vals =
                            [i \in 1..Len(mem.vals) |->
                                IF i - vals_pos \in 1..Len(hv) THEN hv[i - vals_pos] ELSE mem.vals[i]]]]

\* log_from_linear_memory reading and logging under the budget of the contract
log_from_linear_memory_metered(h, mem, msg_pos, vals_pos, vals_len) ==
    IF h.diagnostic_level # "Debug"
    THEN Ret(Ok(VOID), h)
    ELSE IF msg_pos + 1 > Len(mem.slices) \/ vals_pos + vals_len > Len(mem.vals)
    THEN Ret(Err(Error(ScErrorType.WasmVm, ScErrorCode.IndexBounds)), h)
    ELSE IF ~charge(h, 2).res.ok
    THEN charge(h, 2)
    ELSE Ret(Ok(VOID), [charge(h, 2).host EXCEPT !.events = Append(@,
            [type |-> "Diagnostic", topics |-> Val("SymbolSmall", mem.slices[msg_pos + 1]),
             data |-> SubSeq(mem.vals, vals_pos + 1, vals_pos + vals_len)])])

\* log_from_linear_memory: at diagnostic level Debug the message and the
\* Vals are read and logged as a diagnostic event, all under
\* with_free_budget, which charges nothing; at any other level nothing is done
log_from_linear_memory(h, mem, msg_pos, vals_pos, vals_len) ==
    IF h.diagnostic_level # "Debug"
    THEN Ret(Ok(VOID), h)
    ELSE IF msg_pos + 1 > Len(mem.slices) \/ vals_pos + vals_len > Len(mem.vals)
    THEN Ret(Err(Error(ScErrorType.WasmVm, ScErrorCode.IndexBounds)), h)
    ELSE Ret(Ok(VOID), [h EXCEPT !.events = Append(@,
            [type |-> "Diagnostic", topics |-> Val("SymbolSmall", mem.slices[msg_pos + 1]),
             data |-> SubSeq(mem.vals, vals_pos + 1, vals_pos + vals_len)])])

(***************************************************************************)
(* Events, the update of the running contract's code, and the end of the   *)
(* host: try_finish.                                                       *)
(***************************************************************************)
\* record_contract_event: the topics vector is visited, the event is charged
\* and appended to the buffer
record_contract_event(h, type, topics, data) ==
    LET c == charge(h, 1)
    IN  IF visit_obj(h.objects, topics) # NoError
        THEN Ret(Err(visit_obj(h.objects, topics)), h)
        ELSE IF ~c.res.ok
        THEN c
        ELSE Ret(Ok(VOID), [c.host EXCEPT !.events = Append(@,
                [type |-> type, topics |-> topics, data |-> <<data>>])])

\* contract_event
contract_event(h, topics, data) ==
    IF ~check_val_integrity(h.objects, data)
    THEN Ret(Err(Error(ScErrorType.Value, ScErrorCode.InvalidInput)), h)
    ELSE record_contract_event(h, "Contract", topics, data)

\* update_current_contract_wasm: the hash must name a code entry of the
\* storage (wasm_exists: Storage::has); the instance entry of the running
\* contract is read (Storage::get), the system event of the update is
\* recorded, and then the instance entry is written with the new executable
\* (Storage::put). A hash is one byte here, and the event carries the old and
\* the new hash as numbers
update_current_contract_wasm(h, hash) ==
    LET wasm_hash == h.objects[Index(hash)].val
        code == [key |-> ScVal("ContractCode", wasm_hash), durability |-> StorageType.Persistent]
        exists == storage_access(h, code)
        key == contract_instance_ledger_key(Top(h.context).id)
        got == storage_access(exists.host, key)
        old == (CHOOSE e \in entries(h.storage, key) : TRUE).val.val
        emit == charge(got.host, 1)
        emitted == [emit.host EXCEPT !.events = Append(@,
                        [type |-> "System", topics |-> VOID,
                         data |-> <<U32Val(old[1]), U32Val(wasm_hash[1])>>])]
    IN  IF visit_obj(h.objects, hash) # NoError
        THEN Ret(Err(visit_obj(h.objects, hash)), h)
        ELSE IF Len(wasm_hash) # 1
        THEN Ret(Err(Error(ScErrorType.Object, ScErrorCode.UnexpectedSize)), h)
        ELSE IF ~exists.res.ok
        THEN exists
        ELSE IF entries(h.storage, code) = {}
        THEN Ret(Err(Error(ScErrorType.Storage, ScErrorCode.MissingValue)), exists.host)
        ELSE IF ~got.res.ok
        THEN got
        ELSE IF entries(h.storage, key) = {}
        THEN Ret(Err(Error(ScErrorType.Storage, ScErrorCode.MissingValue)), got.host)
        ELSE IF ~emit.res.ok
        THEN emit
        ELSE storage_put(emitted, key, ScVal("ContractInstance", wasm_hash))

\* Events::externalize: every event of the buffer, in order, its topics and
\* data converted to ScVal
externalize(objs, evs) ==
    [i \in 1..Len(evs) |->
        [type |-> evs[i].type,
         topics |-> from_host_val(objs, evs[i].topics),
         data |-> [j \in 1..Len(evs[i].data) |-> from_host_val(objs, evs[i].data[j])]]]

\* try_finish handing the state out whatever the number of references
try_finish_shared(h, strong_count) ==
    [ok |-> TRUE, val |-> VOID, err |-> NoError,
     storage |-> h.storage, events |-> externalize(h.objects, h.events)]

\* try_finish: the events are externalized, then Rc::try_unwrap yields the
\* host state if this Host is the only reference to it; the Result carries
\* the storage and the events when Ok
try_finish(h, strong_count) ==
    IF strong_count = 1
    THEN [ok |-> TRUE, val |-> VOID, err |-> NoError,
          storage |-> h.storage, events |-> externalize(h.objects, h.events)]
    ELSE Err(Error(ScErrorType.Context, ScErrorCode.InternalError))

(***************************************************************************)
(* SpecFinish: the embedder holds the Host, clones and drops it, lets the  *)
(* contract write entries, record events and update its code, and ends     *)
(* with try_finish.                                                        *)
(***************************************************************************)
\* contract 1 runs. The registry holds a u64, a vector of one topic and the
\* hashes of the code 2, which the storage has, and of a code 3, which it
\* has not
InitFinish ==
    /\ objects = <<HostObject("U64Object", <<5>>), HostObject("VecObject", <<SymbolSmall(<<1>>)>>),
                   HostObject("BytesObject", <<2>>), HostObject("BytesObject", <<3>>)>>
    /\ context = <<Frame(1, "invoke")>>
    /\ pend = NoError
    /\ ledger = FALSE
    /\ hres = NoCall
    /\ storage =
          LET code(id) == [key |-> ScVal("ContractCode", <<id>>), durability |-> StorageType.Persistent,
                           val |-> ScVal("Wasm", <<id>>), expiration |-> 1]
              map == {[key |-> ScVal("LedgerKeyContractInstance", <<1>>),
                       durability |-> StorageType.Persistent,
                       val |-> ScVal("ContractInstance", <<1>>), expiration |-> 1],
                      code(1), code(2)}
          IN  [footprint |-> {[key |-> e.key, durability |-> e.durability] : e \in map} \cup
                             {[key |-> ScVal("ContractCode", <<3>>), durability |-> StorageType.Persistent],
                              [key |-> ScVal("U32", <<1>>), durability |-> StorageType.Persistent]},
               map |-> map]
    /\ instance = <<>>
    /\ events = <<>>
    /\ budget \in {[Budget(MaxBudget, MaxBudget) EXCEPT !.cpu = c, !.mem = c] : c \in 0..MaxBudget}
    /\ diagnostic_level = "None"
    /\ refs = 1
    /\ memory = [slices |-> <<>>, vals |-> <<>>]
    /\ authorization_manager = new_enforcing_without_authorizations
    /\ borrows = NoBorrows
    /\ testutils = NoTestutils

\* Host::clone: one more reference to the same host state
CloneHost ==
    /\ refs \in 1..(MaxRefs - 1)
    /\ refs' = refs + 1
    /\ hres' = HPlain("clone", <<>>, 0, Ok(VOID))
    /\ UNCHANGED <<objects, context, pend, ledger, storage, instance, events, budget,
                   diagnostic_level, memory, authorization_manager, borrows, testutils>>

\* a Host goes out of scope: one reference fewer
DropHost ==
    /\ refs >= 1
    /\ refs' = refs - 1
    /\ hres' = HPlain("drop", <<>>, 0, Ok(VOID))
    /\ UNCHANGED <<objects, context, pend, ledger, storage, instance, events, budget,
                   diagnostic_level, memory, authorization_manager, borrows, testutils>>

\* try_finish consumes the Host it is called on, whatever it returns
TryFinish ==
    /\ refs >= 1
    /\ refs' = refs - 1
    /\ hres' = HPlain("try_finish", <<>>, 0, try_finish(self, refs))
    /\ UNCHANGED <<objects, context, pend, ledger, storage, instance, events, budget,
                   diagnostic_level, memory, authorization_manager, borrows, testutils>>

NextFinish ==
    \/ /\ refs >= 1
       /\ \E v \in {U32Val(7), Handle("U64Object", 1)},
             t \in {StorageType.Persistent, StorageType.Instance} :
             Step("put_contract_data", <<U32Val(1), v, U32Val(t)>>,
                  put_contract_data(self, U32Val(1), v, t))
    \/ /\ refs >= 1
       /\ \E t \in {StorageType.Persistent, StorageType.Instance} :
             Step("del_contract_data", <<U32Val(1), U32Val(t)>>,
                  del_contract_data(self, U32Val(1), t))
    \/ /\ refs >= 1
       /\ Len(events) < MaxContractEvents
       /\ \E topics \in {Handle("VecObject", 2), Handle("VecObject", 1)},
             data \in {U32Val(7), Handle("U64Object", 1), Dangling(objects)} :
             Step("contract_event", <<topics, data>>, contract_event(self, topics, data))
    \/ /\ refs >= 1
       /\ Len(events) < MaxContractEvents
       /\ \E hash \in {Handle("BytesObject", 3), Handle("BytesObject", 4), Handle("BytesObject", 1)} :
             Step("update_current_contract_wasm", <<hash>>, update_current_contract_wasm(self, hash))
    \/ CloneHost
    \/ DropHost
    \/ TryFinish

SpecFinish ==
    InitFinish /\ [][NextFinish]_vars

(***************************************************************************)
(* SpecMem: a contract's calls to the linear-memory host functions, and    *)
(* its own writes to its memory, under a budget that can run out.          *)
(***************************************************************************)
\* contract 1 runs; the registry holds a map of two symbol keys; the memory
\* holds four byte slices, two of them too long for a small symbol, and two
\* Val words the guest has written, the second possibly a handle of no object
InitMem ==
    /\ objects = <<HostObject("MapObject", <<(<<SymbolSmall(<<1>>), U32Val(1)>>),
                                             (<<SymbolSmall(<<2>>), U32Val(2)>>)>>)>>
    /\ context = <<Frame(1, "invoke")>>
    /\ pend = NoError
    /\ ledger = FALSE
    /\ hres = NoCall
    /\ storage = [footprint |-> {}, map |-> {}]
    /\ instance = <<>>
    /\ events = <<>>
    /\ budget \in {[Budget(MaxBudget, MaxBudget) EXCEPT !.cpu = c, !.mem = c] : c \in 0..MaxBudget}
    /\ diagnostic_level \in {"None", "Debug"}
    /\ refs = 1
    /\ authorization_manager = new_enforcing_without_authorizations
    /\ borrows = NoBorrows
    /\ testutils = NoTestutils
    /\ \E v \in {U32Val(7), Handle("VecObject", 3)} :
       memory = [slices |-> <<(<<1>>), (<<2>>), [i \in 1..(SymbolSmallMaxLen + 1) |-> 1],
                              [i \in 1..(SymbolSmallMaxLen + 1) |-> 2]>>,
                 vals |-> <<U32Val(7), v>>]

NextMem ==
    \/ \E keys_pos \in {0, 2}, len \in {1, 2} :
          /\ Len(objects) < MaxMemObjects
          /\ Step("map_new_from_linear_memory", <<U32Val(keys_pos), U32Val(0), U32Val(len)>>,
                  map_new_from_linear_memory(self,
                        SubSeq(memory.slices, keys_pos + 1, keys_pos + len),
                        SubSeq(memory.vals, 1, len)))
    \/ \E map \in Handles("MapObject"), keys_pos \in {0, 1}, vals_pos \in {0, 1}, len \in {1, 2, 3} :
          /\ vals_pos = 0 \/ len = 1
          /\ Step("map_unpack_to_linear_memory",
                  <<map, U32Val(keys_pos), U32Val(vals_pos), U32Val(len)>>,
                  map_unpack_to_linear_memory(self, memory, map, keys_pos, vals_pos, len))
    \/ \E map \in Handles("MapObject"), keys_pos \in {0, 1}, len \in {1, 2, 3} :
          Step("map_unpack_to_slice", <<map, U32Val(keys_pos), U32Val(len)>>,
               map_unpack_to_slice(self, map,
                    SubSeq(memory.slices, keys_pos + 1, keys_pos + len), [i \in 1..len |-> VOID]))
    \/ \E vals_pos \in {0, 1}, len \in {1, 2} :
          /\ Len(objects) < MaxMemObjects
          /\ vals_pos + len <= Len(memory.vals)
          /\ Step("vec_new_from_linear_memory", <<U32Val(vals_pos), U32Val(len)>>,
                  vec_new_from_linear_memory(self, SubSeq(memory.vals, vals_pos + 1, vals_pos + len)))
    \/ \E vec \in Handles("VecObject"), vals_pos \in {0, 1}, len \in {1, 2} :
          Step("vec_unpack_to_linear_memory", <<vec, U32Val(vals_pos), U32Val(len)>>,
               vec_unpack_to_linear_memory(self, memory, vec, vals_pos, len))
    \/ \E vec \in Handles("VecObject"), len \in {1, 2} :
          Step("vec_unpack_to_slice", <<vec, U32Val(len)>>,
               vec_unpack_to_slice(self, vec, [i \in 1..len |-> VOID]))
    \/ \E msg_pos \in {0, 4}, vals_len \in {1, 2} :
          /\ Len(events) < MaxEvents
          /\ Step("log_from_linear_memory", <<U32Val(msg_pos), U32Val(0), U32Val(vals_len)>>,
                  log_from_linear_memory(self, memory, msg_pos, 0, vals_len))

SpecMem ==
    InitMem /\ [][NextMem]_vars

(***************************************************************************)
(* Claims about the linear-memory functions.                               *)
(***************************************************************************)
\* C14: map_unpack_to_linear_memory succeeds only if the map has exactly len
\* entries and the key of entry i equals key slice i; map_unpack_to_slice
\* accepts the same inputs.
C14_Original ==
    Returned("map_unpack_to_linear_memory") =>
        LET map == hres.args[1]
            hm == objects[Index(map)].val
            keys_pos == hres.args[2].body[1]
            len == hres.args[4].body[1]
            keys == SubSeq(memory.slices, keys_pos + 1, keys_pos + len)
        IN  /\ Len(hm) = len
            /\ \A i \in 1..len : symbol_str(objects, hm[i][1]) = keys[i]
            /\ map_unpack_to_slice([self EXCEPT !.budget = Budget(MaxBudget, MaxBudget)],
                                   map, keys, [i \in 1..len |-> VOID]).res.ok

\* the events of the contract-event buffer, in the order recorded: those the
\* ledger gets, which are all but the diagnostic ones
ContractEvents(evs) ==
    LET for_ledger(e) == e.type # "Diagnostic"
    IN  SelectSeq(evs, for_ledger)

\* C15: a call of log_from_linear_memory leaves the cpu and memory counters
\* of the budget, the storage and the contract events as they were; when the
\* diagnostic level is not Debug it returns Void, whatever the positions it
\* is given, and records no event at all.
C15_LogNoEffect ==
    [][hres'.fn = "log_from_linear_memory" =>
            /\ budget' = budget
            /\ storage' = storage
            /\ instance' = instance
            /\ ContractEvents(events') = ContractEvents(events)
            /\ diagnostic_level # "Debug" => hres'.res = Ok(VOID) /\ events' = events]_vars

\* a log at level Debug that recorded a diagnostic event after the budget had
\* been charged
C15_Witness ==
    /\ hres.fn = "log_from_linear_memory"
    /\ hres.res.ok
    /\ diagnostic_level = "Debug"
    /\ budget.cpu > 0
    /\ \E i \in 1..Len(events) : events[i].type = "Diagnostic"

\* the last call failed because the budget was exceeded
BudgetExceeded(r) ==
    /\ ~r.res.ok
    /\ r.res.err = Error(ScErrorType.Budget, ScErrorCode.ExceededLimit)

\* C18: a host-function call that fails because the budget is exceeded grows
\* the object registry by at most one entry.
C18_Original ==
    [][BudgetExceeded(hres') => Len(objects') <= Len(objects) + 1]_vars

C17_Original ==
    [][BudgetExceeded(hres') =>
            /\ storage' = storage
            /\ instance' = instance
            /\ ContractEvents(events') = ContractEvents(events)]_vars

(***************************************************************************)
(* Claims about the integrity of the Vals the host holds.                  *)
(***************************************************************************)
\* the Vals a host object holds: the elements of a vector, the keys and
\* values of a map
ValsOf(ho) ==
    IF ho.type = "VecObject"
    THEN {ho.val[i] : i \in 1..Len(ho.val)}
    ELSE IF ho.type = "MapObject"
    THEN {ho.val[i][1] : i \in 1..Len(ho.val)} \cup {ho.val[i][2] : i \in 1..Len(ho.val)}
    ELSE {}

\* C19: every Val held by a vector or a map of the registry, by the instance
\* storage or by an event of the contract-event buffer passes
\* check_val_integrity, and so does every Val a host function returns.
C19_ValIntegrity ==
    LET evs == ContractEvents(events)
        held == UNION {ValsOf(objects[i]) : i \in 1..Len(objects)}
                \cup ValsOf(HostObject("MapObject", instance))
                \cup {evs[i].topics : i \in 1..Len(evs)}
                \cup UNION {{evs[i].data[j] : j \in 1..Len(evs[i].data)} : i \in 1..Len(evs)}
    IN  /\ \A v \in held : check_val_integrity(objects, v)
        /\ hres.res.ok => check_val_integrity(objects, hres.res.val)

\* vec_new_from_linear_memory read a handle of no object from the guest's
\* memory and refused it
C19_Witness ==
    /\ hres.fn = "vec_new_from_linear_memory"
    /\ hres.args = <<U32Val(0), U32Val(2)>>
    /\ ~check_val_integrity(objects, memory.vals[2])
    /\ hres.res = Err(Error(ScErrorType.Value, ScErrorCode.InvalidInput))

(***************************************************************************)
(* The built-in token contract. A call threads a state s: the Result so    *)
(* far, the host and the authorization manager; a step applied to a state  *)
(* whose Result is an Err leaves it as it is, as the ? operator does.      *)
(***************************************************************************)
ContractError ==
    [InternalError |-> 1, OperationNotSupportedError |-> 2, AlreadyInitializedError |-> 3,
     UnauthorizedError |-> 4, AuthenticationError |-> 5, AccountMissingError |-> 6,
     AccountIsNotClassicError |-> 7, NegativeAmountError |-> 8, AllowanceError |-> 9,
     BalanceError |-> 10, BalanceDeauthorizedError |-> 11, OverflowError |-> 12,
     TrustlineMissingError |-> 13]

\* the state a step leaves when a metered host operation returned r
lift(s, r) ==
    [s EXCEPT !.res = r.res, !.host = r.host]

\* the state a step leaves when it fails with a ContractError
token_err(s, code) ==
    [s EXCEPT !.res = Err(Error(ScErrorType.Contract, code))]

\* the instance-storage keys of the token: DataKey::Admin, ::AssetInfo and
\* the key of the metadata
InstanceDataKey ==
    [Admin |-> SymbolSmall(<<1>>), AssetInfo |-> SymbolSmall(<<2>>),
     Metadata |-> SymbolSmall(<<3>>)]

\* the ledger keys of a balance and of an allowance
balance_key(addr) ==
    [key |-> ScVal("Balance", <<addr>>), durability |-> StorageType.Persistent]

allowance_key(from, spender) ==
    [key |-> ScVal("Allowance", <<from, spender>>), durability |-> StorageType.Temporary]

\* the balance entry of an address: <<amount, authorized, clawback>>; an
\* address with no entry has balance 0 and is authorized
balance_of(h, addr) ==
    IF entries(h.storage, balance_key(addr)) = {}
    THEN <<0, 1, 0>>
    ELSE (CHOOSE e \in entries(h.storage, balance_key(addr)) : TRUE).val.val

\* the allowance entry of (from, spender): <<amount, expiration_ledger>>
allowance_of(h, from, spender) ==
    IF entries(h.storage, allowance_key(from, spender)) = {}
    THEN <<0, 0>>
    ELSE (CHOOSE e \in entries(h.storage, allowance_key(from, spender)) : TRUE).val.val

\* check_nonnegative_amount
check_nonnegative_amount(s, amount) ==
    IF ~s.res.ok
    THEN s
    ELSE IF amount < 0
    THEN token_err(s, ContractError.NegativeAmountError)
    ELSE s

\* check_non_native: the asset info of the instance storage must not be the
\* native asset (0)
check_non_native(s) ==
    IF ~s.res.ok
    THEN s
    ELSE IF MapFind(s.host.objects, s.host.instance, InstanceDataKey.AssetInfo) = 0
    THEN [s EXCEPT !.res = Err(Error(ScErrorType.Storage, ScErrorCode.MissingValue))]
    ELSE IF s.host.instance[MapFind(s.host.objects, s.host.instance,
                                    InstanceDataKey.AssetInfo)][2] = U32Val(0)
    THEN token_err(s, ContractError.OperationNotSupportedError)
    ELSE s

\* Address::require_auth: in recording mode the call is recorded and
\* succeeds; in enforcing mode the address must have an unconsumed entry,
\* which the call consumes
require_auth(s, addr) ==
    IF ~s.res.ok
    THEN s
    ELSE IF s.auth.mode = "Recording"
    THEN [s EXCEPT !.auth.recorded = Append(@, addr)]
    ELSE IF addr \in s.auth.entries
    THEN [s EXCEPT !.auth.entries = @ \ {addr}]
    ELSE [s EXCEPT !.res = Err(Error(ScErrorType.Auth, ScErrorCode.InvalidAction))]

\* admin.require_auth() that asks nothing when there is no administrator
admin_require_auth_if_any(s) ==
    LET i == MapFind(s.host.objects, s.host.instance, InstanceDataKey.Admin)
    IN  IF ~s.res.ok
        THEN s
        ELSE IF i = 0
        THEN s
        ELSE require_auth(s, Index(s.host.instance[i][2]))

\* read_administrator followed by admin.require_auth(): the native token
\* has no administrator
admin_require_auth(s) ==
    LET i == MapFind(s.host.objects, s.host.instance, InstanceDataKey.Admin)
    IN  IF ~s.res.ok
        THEN s
        ELSE IF i = 0
        THEN token_err(s, ContractError.InternalError)
        ELSE require_auth(s, Index(s.host.instance[i][2]))

\* the instance-and-code bump every token function makes, between the
\* watermarks INSTANCE_LIFETIME_THRESHOLD and INSTANCE_BUMP_AMOUNT
token_bump(s) ==
    LET INSTANCE_LIFETIME_THRESHOLD == 2
        INSTANCE_BUMP_AMOUNT == 3
    IN  IF ~s.res.ok
        THEN s
        ELSE lift(s, bump_current_contract_instance_and_code(
                        s.host, INSTANCE_LIFETIME_THRESHOLD, INSTANCE_BUMP_AMOUNT))

\* spend_balance and spend_balance_no_authorization_check: read the balance
\* entry, write it with the amount taken off
spend(s, addr, amount, authorization_check) ==
    LET a == storage_access(s.host, balance_key(addr))
        bal == balance_of(s.host, addr)
    IN  IF ~s.res.ok
        THEN s
        ELSE IF ~a.res.ok
        THEN lift(s, a)
        ELSE IF authorization_check /\ bal[2] = 0
        THEN token_err(lift(s, a), ContractError.BalanceDeauthorizedError)
        ELSE IF bal[1] < amount
        THEN token_err(lift(s, a), ContractError.BalanceError)
        ELSE lift(s, storage_put(a.host, balance_key(addr),
                                 ScVal("BalanceValue", <<bal[1] - amount, bal[2], bal[3]>>)))

spend_balance(s, addr, amount) ==
    spend(s, addr, amount, TRUE)

spend_balance_no_authorization_check(s, addr, amount) ==
    spend(s, addr, amount, FALSE)

\* receive_balance: read the balance entry, write it with the amount added
receive_balance(s, addr, amount) ==
    LET a == storage_access(s.host, balance_key(addr))
        bal == balance_of(s.host, addr)
    IN  IF ~s.res.ok
        THEN s
        ELSE IF ~a.res.ok
        THEN lift(s, a)
        ELSE IF bal[2] = 0
        THEN token_err(lift(s, a), ContractError.BalanceDeauthorizedError)
        ELSE lift(s, storage_put(a.host, balance_key(addr),
                                 ScVal("BalanceValue", <<bal[1] + amount, bal[2], bal[3]>>)))

\* check_clawbackable: the balance of the address must have the clawback flag
check_clawbackable(s, addr) ==
    LET a == storage_access(s.host, balance_key(addr))
    IN  IF ~s.res.ok
        THEN s
        ELSE IF ~a.res.ok
        THEN lift(s, a)
        ELSE IF balance_of(s.host, addr)[3] = 0
        THEN token_err(lift(s, a), ContractError.BalanceError)
        ELSE lift(s, a)

\* write_allowance
write_allowance(s, from, spender, amount, expiration_ledger) ==
    IF ~s.res.ok
    THEN s
    ELSE lift(s, storage_put(s.host, allowance_key(from, spender),
                             ScVal("AllowanceValue", <<amount, expiration_ledger>>)))

\* spend_allowance: read the allowance, write it with the amount taken off
spend_allowance(s, from, spender, amount) ==
    LET a == storage_access(s.host, allowance_key(from, spender))
        al == allowance_of(s.host, from, spender)
    IN  IF ~s.res.ok
        THEN s
        ELSE IF ~a.res.ok
        THEN lift(s, a)
        ELSE IF al[1] < amount
        THEN token_err(lift(s, a), ContractError.AllowanceError)
        ELSE IF amount = 0
        THEN lift(s, a)
        ELSE lift(s, storage_put(a.host, allowance_key(from, spender),
                                 ScVal("AllowanceValue", <<al[1] - amount, al[2]>>)))

\* event::approve, ::transfer, ::burn, ::clawback, ::mint: a contract event
\* whose topic is the number of the function and whose data are the
\* addresses and the amount, recorded under one charge
token_event(s, fn, data) ==
    LET c == charge(s.host, 1)
    IN  IF ~s.res.ok
        THEN s
        ELSE IF ~c.res.ok
        THEN lift(s, c)
        ELSE lift(s, Ret(Ok(VOID), [c.host EXCEPT !.events = Append(@,
                [type |-> "Contract", topics |-> SymbolSmall(<<fn>>),
                 data |-> [i \in 1..Len(data) |-> I64(data[i])]])]))

\* Token::approve asking for the authorization before it checks the amount
approve_auth_first(s, from, spender, amount, expiration_ledger) ==
    LET s1 == require_auth(s, from)
        s2 == check_nonnegative_amount(s1, amount)
        s3 == token_bump(s2)
        s4 == write_allowance(s3, from, spender, amount, expiration_ledger)
    IN  token_event(s4, 1, <<from, spender, amount, expiration_ledger>>)

\* Token::approve
approve(s, from, spender, amount, expiration_ledger) ==
    LET s1 == check_nonnegative_amount(s, amount)
        s2 == require_auth(s1, from)
        s3 == token_bump(s2)
        s4 == write_allowance(s3, from, spender, amount, expiration_ledger)
    IN  token_event(s4, 1, <<from, spender, amount, expiration_ledger>>)

\* Token::transfer
transfer(s, from, to, amount) ==
    LET s1 == check_nonnegative_amount(s, amount)
        s2 == require_auth(s1, from)
        s3 == token_bump(s2)
        s4 == spend_balance(s3, from, amount)
        s5 == receive_balance(s4, to, amount)
    IN  token_event(s5, 2, <<from, to, amount>>)

\* Token::transfer_from
transfer_from(s, spender, from, to, amount) ==
    LET s1 == check_nonnegative_amount(s, amount)
        s2 == require_auth(s1, spender)
        s3 == token_bump(s2)
        s4 == spend_allowance(s3, from, spender, amount)
        s5 == spend_balance(s4, from, amount)
        s6 == receive_balance(s5, to, amount)
    IN  token_event(s6, 2, <<from, to, amount>>)

\* Token::burn
burn(s, from, amount) ==
    LET s1 == check_nonnegative_amount(s, amount)
        s2 == check_non_native(s1)
        s3 == require_auth(s2, from)
        s4 == token_bump(s3)
        s5 == spend_balance(s4, from, amount)
    IN  token_event(s5, 3, <<from, amount>>)

\* Token::burn_from
burn_from(s, spender, from, amount) ==
    LET s1 == check_nonnegative_amount(s, amount)
        s2 == check_non_native(s1)
        s3 == require_auth(s2, spender)
        s4 == token_bump(s3)
        s5 == spend_allowance(s4, from, spender, amount)
        s6 == spend_balance(s5, from, amount)
    IN  token_event(s6, 3, <<from, amount>>)

\* Token::clawback
clawback(s, from, amount) ==
    LET s1 == check_nonnegative_amount(s, amount)
        s2 == check_clawbackable(s1, from)
        s3 == admin_require_auth(s2)
        s4 == token_bump(s3)
        s5 == spend_balance_no_authorization_check(s4, from, amount)
    IN  token_event(s5, 4, <<from, amount>>)

\* Token::mint
mint(s, to, amount) ==
    LET s1 == check_nonnegative_amount(s, amount)
        s2 == admin_require_auth(s1)
        s3 == token_bump(s2)
        s4 == receive_balance(s3, to, amount)
    IN  token_event(s4, 5, <<to, amount>>)

\* read_administrator: the Admin entry of the instance storage
read_administrator(s) ==
    LET i == MapFind(s.host.objects, s.host.instance, InstanceDataKey.Admin)
    IN  IF ~s.res.ok
        THEN s
        ELSE IF i = 0
        THEN token_err(s, ContractError.InternalError)
        ELSE [s EXCEPT !.res = Ok(s.host.instance[i][2])]

\* write_administrator, write_asset_info and set_metadata put one entry
\* into the instance storage
write_instance(s, key, val) ==
    IF ~s.res.ok
    THEN s
    ELSE lift(s, put_contract_data(s.host, key, val, StorageType.Instance))

write_administrator(s, addr) ==
    write_instance(s, InstanceDataKey.Admin, Handle("AddressObject", addr))

write_asset_info(s, asset) ==
    write_instance(s, InstanceDataKey.AssetInfo, U32Val(IF asset = 0 THEN 0 ELSE 1))

\* set_metadata: name, symbol and decimals, derived from the asset info
\* that was written
set_metadata(s) ==
    IF ~s.res.ok
    THEN s
    ELSE write_instance(s, InstanceDataKey.Metadata,
            s.host.instance[MapFind(s.host.objects, s.host.instance,
                                    InstanceDataKey.AssetInfo)][2])

\* has_asset_info
has_asset_info(h) ==
    MapFind(h.objects, h.instance, InstanceDataKey.AssetInfo) # 0

\* an Asset is the native asset (0) or a credit asset n, whose issuer is the
\* account issuer[n]
issuer ==
    <<3, 2>>

\* get_asset_contract_id_hash: the id of the contract that wraps the asset,
\* one id for each asset
get_asset_contract_id_hash(asset) ==
    asset + 1

\* Token::init_asset without the has_asset_info test
init_asset_again(s, asset) ==
    LET s1 == lift(s, charge(s.host, 1))
        curr_contract_id == Top(s.host.context).id
        expected_contract_id == get_asset_contract_id_hash(asset)
    IN  IF ~s1.res.ok
        THEN s1
        ELSE IF curr_contract_id # expected_contract_id
        THEN token_err(s1, ContractError.InternalError)
        ELSE IF asset = 0
        THEN set_metadata(write_asset_info(s1, asset))
        ELSE set_metadata(write_asset_info(write_administrator(s1, issuer[asset]), asset))

\* Token::init_asset without the comparison of the contract ids
init_asset_any_id(s, asset) ==
    IF has_asset_info(s.host)
    THEN token_err(s, ContractError.AlreadyInitializedError)
    ELSE LET s1 == lift(s, charge(s.host, 1))
         IN  IF ~s1.res.ok
             THEN s1
             ELSE IF asset = 0
             THEN set_metadata(write_asset_info(s1, asset))
             ELSE set_metadata(write_asset_info(write_administrator(s1, issuer[asset]), asset))

\* Token::init_asset
init_asset(s, asset) ==
    IF has_asset_info(s.host)
    THEN token_err(s, ContractError.AlreadyInitializedError)
    ELSE LET s1 == lift(s, charge(s.host, 1))
             curr_contract_id == Top(s.host.context).id
             expected_contract_id == get_asset_contract_id_hash(asset)
         IN  IF ~s1.res.ok
             THEN s1
             ELSE IF curr_contract_id # expected_contract_id
             THEN token_err(s1, ContractError.InternalError)
             ELSE IF asset = 0
             THEN set_metadata(write_asset_info(s1, asset))
             ELSE set_metadata(write_asset_info(write_administrator(s1, issuer[asset]), asset))

\* Token::allowance
allowance(s, from, spender) ==
    LET s1 == token_bump(s)
        a == storage_access(s1.host, allowance_key(from, spender))
    IN  IF ~s1.res.ok
        THEN s1
        ELSE IF ~a.res.ok
        THEN lift(s1, a)
        ELSE lift(s1, Ret(Ok(I64(allowance_of(s1.host, from, spender)[1])), a.host))

\* read_balance, get_spendable_balance and is_authorized: one field of the
\* balance entry, read under one access
read_balance_field(s, addr, field) ==
    LET a == storage_access(s.host, balance_key(addr))
    IN  IF ~s.res.ok
        THEN s
        ELSE IF ~a.res.ok
        THEN lift(s, a)
        ELSE lift(s, Ret(Ok(I64(balance_of(s.host, addr)[field])), a.host))

\* Token::balance
balance(s, addr) ==
    read_balance_field(token_bump(s), addr, 1)

\* Token::spendable_balance
spendable_balance(s, addr) ==
    read_balance_field(token_bump(s), addr, 1)

\* Token::authorized
authorized(s, addr) ==
    read_balance_field(token_bump(s), addr, 2)

\* write_authorization: the balance entry with the authorized flag set
write_authorization(s, addr, authorize) ==
    LET a == storage_access(s.host, balance_key(addr))
        bal == balance_of(s.host, addr)
    IN  IF ~s.res.ok
        THEN s
        ELSE IF ~a.res.ok
        THEN lift(s, a)
        ELSE lift(s, storage_put(a.host, balance_key(addr),
                                 ScVal("BalanceValue", <<bal[1], authorize, bal[3]>>)))

\* Token::set_authorized
set_authorized(s, addr, authorize) ==
    LET s1 == admin_require_auth(s)
        s2 == token_bump(s1)
        s3 == write_authorization(s2, addr, authorize)
    IN  token_event(s3, 6, <<addr, authorize>>)

\* Token::set_admin asking the new administrator for the authorization
set_admin_new_auth(s, new_admin) ==
    LET admin_ == read_administrator(s)
        s1 == require_auth(admin_, new_admin)
        s2 == token_bump(s1)
        s3 == write_administrator(s2, new_admin)
    IN  token_event(s3, 7, <<Index(admin_.res.val), new_admin>>)

\* Token::set_admin
set_admin(s, new_admin) ==
    LET admin_ == read_administrator(s)
        s1 == require_auth(admin_, Index(admin_.res.val))
        s2 == token_bump(s1)
        s3 == write_administrator(s2, new_admin)
    IN  token_event(s3, 7, <<Index(admin_.res.val), new_admin>>)

\* Token::admin
admin(s) ==
    read_administrator(s)

\* Token::decimals
decimals(s) ==
    LET DECIMAL == 7
    IN  [s EXCEPT !.res = Ok(U32Val(DECIMAL))]

\* read_name and read_symbol: the metadata entry of the instance storage
read_metadata(s) ==
    LET i == MapFind(s.host.objects, s.host.instance, InstanceDataKey.Metadata)
    IN  IF i = 0
        THEN [s EXCEPT !.res = Err(Error(ScErrorType.Storage, ScErrorCode.MissingValue))]
        ELSE [s EXCEPT !.res = Ok(s.host.instance[i][2])]

\* Token::name
name(s) ==
    read_metadata(s)

\* Token::symbol
symbol(s) ==
    read_metadata(s)

(***************************************************************************)
(* SpecToken: calls of the token functions that take an amount, by three   *)
(* addresses, under either mode of the authorization manager.              *)
(***************************************************************************)
\* the amounts the callers pass
Amounts ==
    {-1, 0, 1}

\* the assets init_asset is called with: the native asset, the asset issued
\* by 3 and the asset issued by 2
Assets ==
    {0, 1, 2}

\* the ledger entries of token contract id: its instance, its code, the
\* balance of the holder and the allowance of 1 the holder gave the spender;
\* the footprint has them and the balance of the receiver
InitTokenStorage(id) ==
    LET map == {[key |-> ScVal("LedgerKeyContractInstance", <<id>>),
                 durability |-> StorageType.Persistent,
                 val |-> ScVal("ContractInstance", <<1>>), expiration |-> 1],
                [key |-> ScVal("ContractCode", <<1>>), durability |-> StorageType.Persistent,
                 val |-> ScVal("Wasm", <<1>>), expiration |-> 1],
                [key |-> balance_key(1).key, durability |-> StorageType.Persistent,
                 val |-> ScVal("BalanceValue", <<1, 1, 1>>), expiration |-> 1],
                [key |-> allowance_key(1, 2).key, durability |-> StorageType.Temporary,
                 val |-> ScVal("AllowanceValue", <<1, 5>>), expiration |-> 1]}
    IN  [footprint |-> {[key |-> e.key, durability |-> e.durability] : e \in map} \cup
                       {balance_key(2)},
         map |-> map]

\* what every start of the token has: the registry holds the addresses of a
\* holder (1), of a spender and receiver (2) and of the issuer (3); the
\* holder has a balance of 1 that can be clawed back; the token is contract
\* 1, the contract of the native asset, or contract 2, the contract of the
\* asset issued by 3; the manager records, or enforces the entries of some
\* of the addresses
InitTokenHost(id) ==
    /\ objects = <<AddressAccount(1), AddressAccount(2), AddressAccount(3)>>
    /\ context = <<Frame(id, "invoke")>>
    /\ storage = InitTokenStorage(id)
    /\ pend = NoError
    /\ ledger = FALSE
    /\ hres = NoCall
    /\ events = <<>>
    /\ budget = Budget(MaxBudget + 4, MaxBudget + 4)
    /\ diagnostic_level = "None"
    /\ refs = 1
    /\ memory = [slices |-> <<>>, vals |-> <<>>]
    /\ authorization_manager \in
          {[mode |-> "Recording", entries |-> {}, recorded |-> <<>>]} \cup
          {[new_enforcing_without_authorizations EXCEPT !.entries = es] : es \in SUBSET {1, 2, 3}}
    /\ borrows = NoBorrows
    /\ testutils = NoTestutils

\* a token that init_asset has initialised: the native one has no
\* administrator, the issued one has its issuer
InitToken ==
    \E id \in {1, 2} :
       /\ InitTokenHost(id)
       /\ instance = IF id = 1
                     THEN <<(<<InstanceDataKey.AssetInfo, U32Val(0)>>),
                            (<<InstanceDataKey.Metadata, U32Val(0)>>)>>
                     ELSE <<(<<InstanceDataKey.Admin, Handle("AddressObject", 3)>>),
                            (<<InstanceDataKey.AssetInfo, U32Val(1)>>),
                            (<<InstanceDataKey.Metadata, U32Val(1)>>)>>

\* a token contract that has been created and not yet initialised
InitTokenCreated ==
    \E id \in {1, 2} :
       /\ InitTokenHost(id)
       /\ instance = <<>>

\* the state a token function starts from
token_self ==
    [res |-> Ok(VOID), host |-> self, auth |-> authorization_manager]

\* a token function called on the host, which leaves the state s
TokenStep(fn, args, s) ==
    /\ budget.cpu <= budget.cpu_limit /\ budget.mem <= budget.mem_limit
    /\ \E r \in {s} :
          /\ hres' = HPlain(fn, args, 0, r.res)
          /\ objects' = r.host.objects
          /\ storage' = r.host.storage
          /\ instance' = r.host.instance
          /\ events' = r.host.events
          /\ budget' = r.host.budget
          /\ authorization_manager' = r.auth
    /\ UNCHANGED <<context, pend, ledger, diagnostic_level, refs, memory, borrows, testutils>>

NextToken ==
    \/ \E amount \in Amounts :
          TokenStep("approve", <<U32Val(1), U32Val(2), I64(amount), U32Val(5)>>,
                    approve(token_self, 1, 2, amount, 5))
    \/ \E to \in {1, 2}, amount \in Amounts :
          TokenStep("transfer", <<U32Val(1), U32Val(to), I64(amount)>>,
                    transfer(token_self, 1, to, amount))
    \/ \E amount \in Amounts :
          TokenStep("transfer_from", <<U32Val(2), U32Val(1), U32Val(2), I64(amount)>>,
                    transfer_from(token_self, 2, 1, 2, amount))
    \/ \E amount \in Amounts :
          TokenStep("burn", <<U32Val(1), I64(amount)>>, burn(token_self, 1, amount))
    \/ \E amount \in Amounts :
          TokenStep("burn_from", <<U32Val(2), U32Val(1), I64(amount)>>,
                    burn_from(token_self, 2, 1, amount))
    \/ \E amount \in Amounts :
          TokenStep("clawback", <<U32Val(1), I64(amount)>>, clawback(token_self, 1, amount))
    \/ \E amount \in Amounts :
          TokenStep("mint", <<U32Val(2), I64(amount)>>, mint(token_self, 2, amount))
    \/ \E asset \in Assets :
          TokenStep("init_asset", <<U32Val(asset)>>, init_asset(token_self, asset))
    \/ TokenStep("allowance", <<U32Val(1), U32Val(2)>>, allowance(token_self, 1, 2))
    \/ TokenStep("balance", <<U32Val(1)>>, balance(token_self, 1))
    \/ TokenStep("spendable_balance", <<U32Val(1)>>, spendable_balance(token_self, 1))
    \/ TokenStep("authorized", <<U32Val(1)>>, authorized(token_self, 1))
    \/ \E authorize \in {0, 1} :
          TokenStep("set_authorized", <<U32Val(1), U32Val(authorize)>>,
                    set_authorized(token_self, 1, authorize))
    \/ TokenStep("set_admin", <<U32Val(2)>>, set_admin(token_self, 2))
    \/ TokenStep("admin", <<>>, admin(token_self))
    \/ TokenStep("decimals", <<>>, decimals(token_self))
    \/ TokenStep("name", <<>>, name(token_self))
    \/ TokenStep("symbol", <<>>, symbol(token_self))

SpecToken ==
    InitToken /\ [][NextToken]_vars

\* the token functions from the creation of the contract on
SpecTokenInit ==
    InitTokenCreated /\ [][NextToken]_vars

(***************************************************************************)
(* Claims about the token contract.                                        *)
(***************************************************************************)
\* C20: a call of approve, transfer, transfer_from, burn, burn_from,
\* clawback or mint with a negative amount fails with NegativeAmountError and
\* leaves the storage (balances and allowances), the instance storage, the
\* authorization manager, the event buffer and the budget as they were.
C20_NegativeAmount ==
    [][LET amount_arg == [approve |-> 3, transfer |-> 3, transfer_from |-> 4, burn |-> 2,
                          burn_from |-> 3, clawback |-> 2, mint |-> 2]
       IN  (/\ hres'.fn \in DOMAIN amount_arg
            /\ hres'.args[amount_arg[hres'.fn]].body[1] < 0) =>
                /\ hres'.res = Err(Error(ScErrorType.Contract, ContractError.NegativeAmountError))
                /\ storage' = storage
                /\ instance' = instance
                /\ authorization_manager' = authorization_manager
                /\ events' = events
                /\ budget' = budget]_vars

\* approve with a negative amount refused by a recording manager, after a
\* token function had succeeded and recorded its authorization and its event
C20_Witness ==
    /\ hres.fn = "approve"
    /\ hres.args[3] = I64(-1)
    /\ hres.res = Err(Error(ScErrorType.Contract, ContractError.NegativeAmountError))
    /\ authorization_manager.mode = "Recording"
    /\ Len(authorization_manager.recorded) = 1
    /\ Len(events) = 1

(***************************************************************************)
(* Claims about unpacking a vector to the guest's memory.                  *)
(***************************************************************************)

(***************************************************************************)
(* SpecBorrow: the checked borrows of the fields of HostImpl. A function    *)
(* that keeps a borrow while it runs code that can call back into the host *)
(* (require_auth, with_ledger_info, with_mut_ledger_info) is two steps: it  *)
(* takes the borrow, and it returns and drops it; other calls come between. *)
(***************************************************************************)
\* try_borrow_<field>: a shared borrow, refused under a mutable one
try_borrow(b, field) ==
    IF b.flag[field] >= 0
    THEN [res |-> Ok(VOID),
          borrows |-> [b EXCEPT !.flag[field] = @ + 1,
                                !.held = Append(@, [field |-> field, mut |-> FALSE])]]
    ELSE [res |-> Err(Error(ScErrorType.Context, ScErrorCode.InternalError)), borrows |-> b]

\* try_borrow_<field>_mut: a mutable borrow, refused under any borrow
try_borrow_mut(b, field) ==
    IF b.flag[field] = 0
    THEN [res |-> Ok(VOID),
          borrows |-> [b EXCEPT !.flag[field] = -1,
                                !.held = Append(@, [field |-> field, mut |-> TRUE])]]
    ELSE [res |-> Err(Error(ScErrorType.Context, ScErrorCode.InternalError)), borrows |-> b]

\* the Ref or RefMut taken last goes out of scope
drop_borrow(b) ==
    LET r == b.held[Len(b.held)]
    IN  [b EXCEPT !.flag[r.field] = IF r.mut THEN 0 ELSE @ - 1,
                  !.held = SubSeq(@, 1, Len(@) - 1)]

\* AuthorizationManager::new_recording
new_recording ==
    [mode |-> "Recording", entries |-> {}, recorded |-> <<>>]

\* AuthorizationManager::new_enforcing
new_enforcing(auth_entries) ==
    [new_enforcing_without_authorizations EXCEPT !.entries = auth_entries]

\* switch_to_recording_auth that writes the field without borrowing it
switch_to_recording_auth_unchecked(b, am) ==
    [res |-> Ok(VOID), am |-> new_recording]

\* switch_to_recording_auth: the manager is replaced under a mutable borrow
switch_to_recording_auth(b, am) ==
    IF ~try_borrow_mut(b, "authorization_manager").res.ok
    THEN [res |-> try_borrow_mut(b, "authorization_manager").res, am |-> am]
    ELSE [res |-> Ok(VOID), am |-> new_recording]

\* set_authorization_entries
set_authorization_entries(b, am, auth_entries) ==
    IF ~try_borrow_mut(b, "authorization_manager").res.ok
    THEN [res |-> try_borrow_mut(b, "authorization_manager").res, am |-> am]
    ELSE [res |-> Ok(VOID), am |-> new_enforcing(auth_entries)]

\* set_ledger_info
set_ledger_info(b, li) ==
    IF ~try_borrow_mut(b, "ledger").res.ok
    THEN [res |-> try_borrow_mut(b, "ledger").res, ledger |-> li]
    ELSE [res |-> Ok(VOID), ledger |-> TRUE]

\* a contract runs on a host whose ledger info is set or not; two addresses
InitBorrow ==
    /\ objects = <<AddressAccount(1), AddressAccount(2)>>
    /\ context = <<Frame(1, "invoke")>>
    /\ pend = NoError
    /\ ledger \in BOOLEAN
    /\ hres = NoCall
    /\ InitEnv

\* a call that borrows nothing across calls
BorrowCall(fn, args, res) ==
    /\ hres' = HPlain(fn, args, Len(borrows.held), res)
    /\ UNCHANGED <<objects, context, pend, storage, instance, events, budget,
                   diagnostic_level, refs, memory, borrows, testutils>>

\* a function takes the borrow it keeps while it runs: r is the outcome of
\* try_borrow or try_borrow_mut
BorrowEnter(fn, args, r) ==
    /\ Len(borrows.held) < MaxBorrows
    /\ hres' = HPlain(fn, args, Len(borrows.held), r.res)
    /\ borrows' = r.borrows
    /\ UNCHANGED <<objects, context, pend, ledger, storage, instance, events, budget,
                   diagnostic_level, refs, memory, authorization_manager, testutils>>

\* the function that took the latest borrow returns
BorrowReturn ==
    /\ borrows.held # <<>>
    /\ borrows' = drop_borrow(borrows)
    /\ LET r == borrows.held[Len(borrows.held)]
       IN  IF r.field = "authorization_manager"
           THEN \E address \in {1, 2} :
                   \E s \in {require_auth(token_self, address)} :
                      /\ hres' = HPlain("require_auth", <<U32Val(address)>>,
                                        Len(borrows.held) - 1, s.res)
                      /\ authorization_manager' = s.auth
           ELSE /\ hres' = HPlain(IF r.mut THEN "with_mut_ledger_info" ELSE "with_ledger_info",
                                  <<>>, Len(borrows.held) - 1, Ok(VOID))
                /\ UNCHANGED authorization_manager
    /\ UNCHANGED <<objects, context, pend, ledger, storage, instance, events, budget,
                   diagnostic_level, refs, memory, testutils>>

NextBorrow ==
    \/ \E r \in {switch_to_recording_auth(borrows, authorization_manager)} :
          /\ BorrowCall("switch_to_recording_auth", <<>>, r.res)
          /\ authorization_manager' = r.am
          /\ UNCHANGED ledger
    \/ \E auth_entries \in {{1}, {1, 2}} :
          \E r \in {set_authorization_entries(borrows, authorization_manager, auth_entries)} :
             /\ BorrowCall("set_authorization_entries", <<>>, r.res)
             /\ authorization_manager' = r.am
             /\ UNCHANGED ledger
    \/ \E r \in {set_ledger_info(borrows, ledger)} :
          /\ BorrowCall("set_ledger_info", <<>>, r.res)
          /\ ledger' = r.ledger
          /\ UNCHANGED authorization_manager
    \/ /\ Len(authorization_manager.recorded) < MaxBorrows
       /\ BorrowEnter("try_borrow_authorization_manager", <<>>,
                      try_borrow(borrows, "authorization_manager"))
    \/ /\ ledger
       /\ BorrowEnter("try_borrow_ledger", <<>>, try_borrow(borrows, "ledger"))
    \/ /\ ledger
       /\ BorrowEnter("try_borrow_ledger_mut", <<>>, try_borrow_mut(borrows, "ledger"))
    \/ BorrowReturn

SpecBorrow ==
    InitBorrow /\ [][NextBorrow]_vars

\* the field behind a borrow function of hres: the first for a function that
\* borrows it mutably, the second for one that shares it
BorrowedMut ==
    [switch_to_recording_auth |-> "authorization_manager",
     set_authorization_entries |-> "authorization_manager",
     set_ledger_info |-> "ledger", try_borrow_ledger_mut |-> "ledger"]

BorrowedShared ==
    [try_borrow_authorization_manager |-> "authorization_manager",
     try_borrow_ledger |-> "ledger"]

Pc(t) ==
    IF testutils.calls[t] = <<>>
    THEN "outside"
    ELSE testutils.calls[t][Len(testutils.calls[t])]

\* thread t moves to position pc in its innermost call
Goto(tu, t, pc) ==
    [tu EXCEPT !.calls[t][Len(tu.calls[t])] = pc]

\* the panic hook of the process runs for a panic on thread t: the wrapper
\* calls the hook it captured unless the thread's count is not 0
run_hook(tu, t) ==
    [tu EXCEPT !.panic =
        [thread |-> t, count |-> tu.TEST_CONTRACT_CALL_COUNT[t],
         ran |-> IF tu.hook # "wrapper"
                 THEN tu.hook
                 ELSE IF tu.TEST_CONTRACT_CALL_COUNT[t] # 0
                 THEN "suppressed"
                 ELSE tu.existing_panic_hook]]

\* std::panic::take_hook: the registered hook is returned and the default
\* hook is registered in its place
take_hook(tu) ==
    [tu EXCEPT !.existing_panic_hook = tu.hook, !.hook = "default_hook"]

\* std::panic::set_hook of the wrapper
set_hook(tu) ==
    [tu EXCEPT !.hook = "wrapper", !.wrapped = @ + 1]

\* a step of the test process: the host state stays as it is
HookStep(tu) ==
    /\ testutils' = tu
    /\ UNCHANGED <<objects, context, pend, ledger, hres, storage, instance, events, budget,
                   diagnostic_level, refs, memory, authorization_manager, borrows>>

\* two threads, neither in a call; the process has the default panic hook or
\* one that was set before
InitHook ==
    /\ objects = <<>>
    /\ context = <<>>
    /\ pend = NoError
    /\ ledger = FALSE
    /\ hres = NoCall
    /\ storage = [footprint |-> {}, map |-> {}]
    /\ instance = <<>>
    /\ events = <<>>
    /\ budget = Budget(0, 0)
    /\ diagnostic_level = "None"
    /\ refs = 1
    /\ memory = [slices |-> <<>>, vals |-> <<>>]
    /\ authorization_manager = new_enforcing_without_authorizations
    /\ borrows = NoBorrows
    /\ testutils \in {NewTestutils("default_hook"), NewTestutils("custom_hook")}

\* thread t calls call_with_suppressed_panic_hook, from outside or from the
\* closure of a call it is in
CallWithSuppressedPanicHook(t) ==
    /\ Pc(t) \in {"outside", "closure"}
    /\ Len(testutils.calls[t]) < MaxCallDepth
    /\ HookStep([testutils EXCEPT !.calls[t] = Append(@, "call_once")])

\* WRAP_PANIC_HOOK.call_once: the first thread runs the closure, starting
\* with take_hook; a thread that finds it complete goes on; a thread that
\* finds it running waits
CallOnce(t) ==
    /\ Pc(t) = "call_once"
    /\ testutils.WRAP_PANIC_HOOK # "Running"
    /\ IF testutils.WRAP_PANIC_HOOK = "Complete"
       THEN HookStep(Goto(testutils, t, "add"))
       ELSE HookStep(Goto([take_hook(testutils) EXCEPT !.WRAP_PANIC_HOOK = "Running"],
                          t, "set_hook"))

\* set_hook(wrapper), which ends the closure of call_once
SetHook(t) ==
    /\ Pc(t) = "set_hook"
    /\ HookStep(Goto([set_hook(testutils) EXCEPT !.WRAP_PANIC_HOOK = "Complete"], t, "add"))

\* TEST_CONTRACT_CALL_COUNT += 1, then catch_unwind(closure) starts
CheckedAdd(t) ==
    /\ Pc(t) = "add"
    /\ HookStep(Goto([testutils EXCEPT !.TEST_CONTRACT_CALL_COUNT[t] = @ + 1], t, "closure"))

\* the closure returns
ClosureReturns(t) ==
    /\ Pc(t) = "closure"
    /\ HookStep(Goto(testutils, t, "sub"))

\* the closure panics: the hook runs on the thread, catch_unwind catches
ClosurePanics(t) ==
    /\ Pc(t) = "closure"
    /\ HookStep(Goto(run_hook(testutils, t), t, "sub"))

\* TEST_CONTRACT_CALL_COUNT -= 1, and the call returns res
CheckedSub(t) ==
    /\ Pc(t) = "sub"
    /\ HookStep([testutils EXCEPT !.TEST_CONTRACT_CALL_COUNT[t] = @ - 1,
                                  !.calls[t] = SubSeq(@, 1, Len(@) - 1)])

\* a panic on a thread that is in no call
PanicOutside(t) ==
    /\ Pc(t) = "outside"
    /\ HookStep(run_hook(testutils, t))

NextHook ==
    \E t \in Threads :
       \/ CallWithSuppressedPanicHook(t)
       \/ CallOnce(t)
       \/ SetHook(t)
       \/ CheckedAdd(t)
       \/ ClosureReturns(t)
       \/ ClosurePanics(t)
       \/ CheckedSub(t)
       \/ PanicOutside(t)

SpecHook ==
    InitHook /\ [][NextHook]_vars

\* the calls of thread t whose closure has started and whose count is not
\* yet given back
Depth(t) ==
    Cardinality({i \in 1..Len(testutils.calls[t]) : testutils.calls[t][i] \in {"closure", "sub"}})

\* C25: the original hook is skipped exactly when the panicking thread is
\* inside a call of call_with_suppressed_panic_hook (its counter is not 0);
\* a thread's counter is its nesting depth, so it is back at its previous
\* value when a call ends, whether the closure returned or panicked; a panic
\* on a thread that is in no call reaches the original hook; and the hook is
\* wrapped exactly once however the threads' calls interleave.
C25_Original ==
    /\ testutils.panic.thread # 0 =>
          /\ testutils.panic.ran = "suppressed" <=> testutils.panic.count # 0
          /\ testutils.panic.count = 0 => testutils.panic.ran = testutils.original
    /\ \A t \in Threads : testutils.TEST_CONTRACT_CALL_COUNT[t] = Depth(t)
    /\ testutils.wrapped <= 1
    /\ \A t \in Threads :
          Pc(t) \in {"add", "closure", "sub"} =>
             /\ testutils.wrapped = 1
             /\ testutils.hook = "wrapper"
             /\ testutils.existing_panic_hook = testutils.original

\* the instance entry and the code entry of the running contract
InstanceAndCode(st) ==
    {e \in st.map : e.key.kind \in {"LedgerKeyContractInstance", "ContractCode"}}

\* C21: every function of the token (init_asset, allowance, approve, balance,
\* spendable_balance, authorized, transfer, transfer_from, burn, burn_from,
\* set_authorized, mint, clawback, set_admin, admin, decimals, name, symbol)
\* bumps the instance and the code of the current contract on every
\* successful call: after the call the two entries expire when they would
\* after a bump of the state the call started from.
C21_Original ==
    [][hres'.res.ok =>
          {[key |-> e.key, expiration |-> e.expiration] : e \in InstanceAndCode(storage')}
          = {[key |-> e.key, expiration |-> e.expiration] :
                e \in InstanceAndCode(token_bump(token_self).host.storage)}]_vars

\* C22: init_asset succeeds only when the id of the current contract is the
\* id expected for the asset; when they differ the call fails and writes
\* nothing: the instance storage (asset info, administrator, metadata), the
\* ledger entries and the events are as they were.
C22_InitAssetId ==
    [][hres'.fn = "init_asset" =>
          LET expected_contract_id == get_asset_contract_id_hash(hres'.args[1].body[1])
          IN  /\ hres'.res.ok => Top(context).id = expected_contract_id
              /\ Top(context).id # expected_contract_id =>
                    /\ ~hres'.res.ok
                    /\ instance' = instance
                    /\ storage' = storage
                    /\ events' = events]_vars

\* init_asset has been refused on a contract that is not yet initialised,
\* for an asset of another contract
C22_Witness ==
    /\ hres.fn = "init_asset"
    /\ hres.res = Err(Error(ScErrorType.Contract, ContractError.InternalError))
    /\ Top(context).id # get_asset_contract_id_hash(hres.args[1].body[1])
    /\ instance = <<>>

\* the entry of key k in the instance storage: none or one
InstanceEntry(inst, k) ==
    {inst[i] : i \in {j \in 1..Len(inst) : inst[j][1] = k}}

\* C28: once the asset info is recorded, every later init_asset, for the
\* same or for another asset, fails with AlreadyInitializedError and leaves
\* the asset info, the administrator and the metadata as they were; and no
\* call of any token function changes the asset info that is recorded.
C28_InitOnce ==
    [][InstanceEntry(instance, InstanceDataKey.AssetInfo) # {} =>
          /\ InstanceEntry(instance', InstanceDataKey.AssetInfo)
                = InstanceEntry(instance, InstanceDataKey.AssetInfo)
          /\ hres'.fn = "init_asset" =>
                /\ hres'.res = Err(Error(ScErrorType.Contract,
                                         ContractError.AlreadyInitializedError))
                /\ instance' = instance]_vars

\* init_asset has been refused on a contract that init_asset had initialised
\* for the same asset
C28_Witness ==
    /\ hres.fn = "init_asset"
    /\ hres.res = Err(Error(ScErrorType.Contract, ContractError.AlreadyInitializedError))
    /\ Top(context).id = get_asset_contract_id_hash(hres.args[1].body[1])
    /\ InstanceEntry(instance, InstanceDataKey.Metadata) # {}

\* C23: a token initialised for the native asset never has an administrator,
\* whatever token functions are called on it by whatever callers, and every
\* call of clawback, set_authorized, mint, set_admin and admin on it fails.
C23_NativeNoAdmin ==
    [][InstanceEntry(instance, InstanceDataKey.AssetInfo)
          = {<<InstanceDataKey.AssetInfo, U32Val(0)>>} =>
          /\ InstanceEntry(instance, InstanceDataKey.Admin) = {}
          /\ InstanceEntry(instance', InstanceDataKey.Admin) = {}
          /\ hres'.fn \in {"clawback", "set_authorized", "mint", "set_admin", "admin"}
                => ~hres'.res.ok]_vars

\* mint of a valid amount has failed for want of an administrator on a token
\* that init_asset initialised for the native asset, under a manager that
\* accepts every authorization
C23_Witness ==
    /\ hres.fn = "mint"
    /\ hres.args[2] = I64(1)
    /\ hres.res = Err(Error(ScErrorType.Contract, ContractError.InternalError))
    /\ InstanceEntry(instance, InstanceDataKey.AssetInfo)
          = {<<InstanceDataKey.AssetInfo, U32Val(0)>>}
    /\ authorization_manager.mode = "Recording"

\* the address whose authorization the call of hres' needs, given the state
\* it starts from: from for approve, transfer and burn, the spender for
\* transfer_from and burn_from, else the administrator (0 when there is none)
C24_Responsible ==
    IF hres'.fn \in {"approve", "transfer", "burn", "transfer_from", "burn_from"}
    THEN hres'.args[1].body[1]
    ELSE IF InstanceEntry(instance, InstanceDataKey.Admin) = {}
    THEN 0
    ELSE Index((CHOOSE e \in InstanceEntry(instance, InstanceDataKey.Admin) : TRUE)[2])

\* the step has taken the authorization of addr from the manager: recorded
\* it, or consumed the entry of addr
C24_Authorized(addr) ==
    IF authorization_manager.mode = "Recording"
    THEN authorization_manager' =
            [authorization_manager EXCEPT !.recorded = Append(@, addr)]
    ELSE /\ addr \in authorization_manager.entries
         /\ authorization_manager' =
               [authorization_manager EXCEPT !.entries = @ \ {addr}]

\* C24: in approve, transfer, transfer_from, burn, burn_from, clawback,
\* set_authorized, mint and set_admin, require_auth of the responsible
\* address (for set_admin the old administrator) succeeds before anything is
\* written; a call that succeeds emits exactly one event, and the event comes
\* after all writes, so a call that emitted one did not fail; when
\* require_auth fails nothing is written and no event is emitted.
C24_StepOrder ==
    [][hres'.fn \in {"approve", "transfer", "transfer_from", "burn", "burn_from",
                     "clawback", "set_authorized", "mint", "set_admin"} =>
          /\ (storage' # storage \/ instance' # instance \/ events' # events)
                => C24_Authorized(C24_Responsible)
          /\ hres'.res.ok => Len(events') = Len(events) + 1
          /\ events' # events => hres'.res.ok
          /\ hres'.res = Err(Error(ScErrorType.Auth, ScErrorCode.InvalidAction))
                => /\ storage' = storage
                   /\ instance' = instance
                   /\ events' = events
                   /\ authorization_manager' = authorization_manager]_vars

\* set_admin has succeeded under an enforcing manager: it consumed the entry
\* of the old administrator 3 and left the entry of the new administrator 2
C24_Witness ==
    /\ Returned("set_admin")
    /\ authorization_manager.mode = "Enforcing"
    /\ 3 \notin authorization_manager.entries
    /\ 2 \in authorization_manager.entries
    /\ InstanceEntry(instance, InstanceDataKey.Admin)
          = {<<InstanceDataKey.Admin, Handle("AddressObject", 2)>>}
    /\ Len(events) = 1

\* the balances and the allowance recorded in ledger entries st: the balance
\* of each of the three addresses, and what the holder 1 allows the spender 2
Balances(st) ==
    [a \in 1..3 |-> balance_of([storage |-> st], a)[1]]

Allowed(st) ==
    allowance_of([storage |-> st], 1, 2)[1]

Supply(st) ==
    Balances(st)[1] + Balances(st)[2] + Balances(st)[3]

C27_Call ==
    LET fn == hres'.fn
        args == hres'.args
        ok == hres'.res.ok
        len == Len(objects[Index(args[1])].val)
    IN  /\ fn \in {"vec_get", "vec_del"} => (ok <=> Index(args[2]) < len)
        /\ fn = "vec_put" /\ check_val_integrity(objects, args[3])
               => (ok <=> Index(args[2]) < len)
        /\ fn = "vec_insert" /\ check_val_integrity(objects, args[3])
               => /\ ok <=> Index(args[2]) <= len
                  /\ Index(args[2]) = len =>
                         LET w == vec_push_back(objects, args[1], args[3])
                         IN  /\ w.res.ok
                             /\ objects'[Index(hres'.res.val)]
                                    = w.objects[Index(w.res.val)]
        /\ fn = "vec_slice"
               => (ok <=> Index(args[2]) <= Index(args[3]) /\ Index(args[3]) <= len)

\* C27: vec_get, vec_put and vec_del succeed only for i < len(v); vec_insert
\* succeeds for every i <= len(v), and at i = len(v) it gives the vector of
\* vec_push_back; vec_slice succeeds only for start <= end <= len(v); a call
\* that fails returns an error and adds no object to the registry.
C27_VecIndexValidation ==
    [][hres'.fn \in {"vec_get", "vec_put", "vec_del", "vec_insert", "vec_slice"}
          => /\ visit_obj(objects, hres'.args[1]) = NoError => C27_Call
             /\ ~hres'.res.ok => /\ objects' = objects
                                 /\ hres'.res.err # NoError]_vars

\* an element has been inserted at the end of a vector of one element
C27_Witness ==
    /\ Returned("vec_insert")
    /\ hres.args[2] = U32Val(1)
    /\ Len(objects[Index(hres.args[1])].val) = 1
    /\ objects[Index(hres.res.val)].val = <<objects[Index(hres.args[1])].val[1], hres.args[3]>>

\* C30: vec_unpack_to_linear_memory(vec, vals_pos, len) succeeds only when
\* the vector has exactly len elements, as vec_unpack_to_slice does for a
\* slice of len words; it then writes len words, all of them inside the len
\* words at vals_pos.
C30_Original ==
    Returned("vec_unpack_to_linear_memory") =>
        LET vec == hres.args[1]
            len == hres.args[3].body[1]
        IN  /\ Len(objects[Index(vec)].val) = len
            /\ vec_unpack_to_slice([self EXCEPT !.budget = Budget(MaxBudget, MaxBudget)],
                                   vec, [i \in 1..len |-> VOID]).res.ok

====
